---- MODULE Spec2Model ----
(***************************************************************************)
(* VideoQueryAI: the chunk aligner (chunker.py), the ChromaDB index store  *)
(* with its BM25 cache and hybrid search (qa.py), the FAISS index store    *)
(* (faiss_qa.py) and answer generation, as state machines.                 *)
(*                                                                         *)
(* Strings are sequences of one-character strings, so that lower(),        *)
(* strip(), split(), join() and the substring test are computed as Python  *)
(* computes them.  Scores and distances are integers in tenths.            *)
(***************************************************************************)
EXTENDS Integers, Sequences, FiniteSets, TLC

\* ------------------------------------------------------------------ bounds
\* Longest generated text, in words.
MaxWords == 6
\* Largest number of transcript segments.
MaxSegs == 2
\* Longest generated transcript, in words.
MaxTranscript == 10

\* Number of distinct chunk ids a chunks file may carry.
NIds == 3
\* Longest chunks file handed to one add call, in chunks.
MaxFile == 2
\* Largest n_results of a search.
MaxK == 2
\* Largest source number of a citation.
MaxSource == 3

\* ------------------------------------------------------- program constants
\* self.dimension: the embedding dimension of all-MiniLM-L6-v2.
DIM == 384
\* 1.0 in tenths: score = 1.0 - distance.
ONE == 10
\* The boost of a BM25 match, 0.5, in tenths.
BOOST == 5
\* batch_size of add_chunks_to_chromadb.
BATCH_SIZE == 50
\* n_results of the search answer_question makes.
ANSWER_N_RESULTS == 3

VARIABLES
    chunk_text,     \* find_chunk_timestamps: the chunk's text
    segments,       \* find_chunk_timestamps: the transcript segments
    chunk,          \* the chunk built by process_transcription_for_rag_langchain
    phase,          \* position of the chunking call
    chroma,         \* ./chroma_db: collection name -> collection, or NoValue
    bm25_cache,     \* qa._bm25_cache: collection name -> cached index, or NoValue
    faiss_store,    \* ./faiss_vectordb: collection name -> saved files, or NoValue
    last,           \* the last call made and what it returned
    threads,        \* the threads of the front end: where each is, its locals
    ui              \* the front end: the videos on disk, the videos and the
                    \* chat it shows, its Process button

align_vars == <<chunk_text, segments, chunk, phase>>
store_vars == <<chroma, bm25_cache, faiss_store, last, threads, ui>>
vars == <<chunk_text, segments, chunk, phase,
          chroma, bm25_cache, faiss_store, last, threads, ui>>

Range(s) == {s[i] : i \in 1..Len(s)}
Min(a, b) == IF a < b THEN a ELSE b
Max(a, b) == IF a > b THEN a ELSE b

NoValue == [none |-> TRUE]

\* F(v) for the value v of an expression, which is evaluated once.
Once(v, F(_)) == CHOOSE r \in {F(x) : x \in {v}} : TRUE

\* ------------------------------------------------------------ Python strings
Space == " "

LowerChar(c) ==
    CASE c = "A" -> "a"
      [] c = "B" -> "b"
      [] c = "C" -> "c"
      [] OTHER -> c

\* str.lower()
lower(s) == [i \in 1..Len(s) |-> LowerChar(s[i])]

RECURSIVE lstrip(_)
lstrip(s) == IF s # <<>> /\ Head(s) = Space THEN lstrip(Tail(s)) ELSE s

RECURSIVE rstrip(_)
rstrip(s) ==
    IF s # <<>> /\ s[Len(s)] = Space THEN rstrip(SubSeq(s, 1, Len(s) - 1)) ELSE s

\* str.strip()
strip(s) == rstrip(lstrip(s))

\* Length of the leading run of non-space characters.
RECURSIVE WordEnd(_)
WordEnd(s) == IF s = <<>> \/ Head(s) = Space THEN 0 ELSE 1 + WordEnd(Tail(s))

\* str.split(): the words between runs of whitespace, no empty words.
RECURSIVE split(_)
split(s) ==
    LET t == lstrip(s)
    IN  IF t = <<>> THEN <<>>
        ELSE LET n == WordEnd(t)
             IN  <<SubSeq(t, 1, n)>> \o split(SubSeq(t, n + 1, Len(t)))

\* ' '.join(words)
RECURSIVE join(_)
join(words) ==
    IF words = <<>> THEN <<>>
    ELSE IF Len(words) = 1 THEN words[1]
    ELSE words[1] \o <<Space>> \o join(Tail(words))

\* p in s, for strings
IsSubstring(p, s) ==
    \E i \in 0..(Len(s) - Len(p)) : SubSeq(s, i + 1, i + Len(p)) = p

\* words[:n]
FirstN(words, n) == SubSeq(words, 1, Min(n, Len(words)))
\* words[-n:]
LastN(words, n) == SubSeq(words, Max(1, Len(words) - n + 1), Len(words))

\* str(timedelta(seconds=int(x))) as <<hours, minutes, seconds>>
format_time(x) == <<x \div 3600, (x \div 60) % 60, x % 60>>

\* ------------------------------------------------------- chunker.py aligner
\* A faulty variant of ZeroRange: -1 for seconds that are not known.
UnknownRange ==
    [start_time |-> format_time(0), end_time |-> format_time(0),
     start_seconds |-> 0 - 1, end_seconds |-> 0 - 1]

ZeroRange ==
    [start_time |-> format_time(0), end_time |-> format_time(0),
     start_seconds |-> 0, end_seconds |-> 0]

SegmentRange(start_segment, end_segment) ==
    [start_time |-> start_segment.start_time,
     end_time |-> end_segment.end_time,
     start_seconds |-> start_segment.start_seconds,
     end_seconds |-> end_segment.end_seconds]

\* chunk_text.lower().strip().split()
chunk_words_of(text) == split(strip(lower(text)))

\* segment.get('text', '').lower().strip()
segment_text_of(segment) == strip(lower(segment.text))

\* sum(1 for word in words if word in segment_text.split())
words_match(words, segment_text) ==
    LET seg_words == Range(split(segment_text))
    IN  Cardinality({i \in 1..Len(words) : words[i] \in seg_words})

\* A faulty variant of ScoreStep: an equal score replaces the best segment
\* too, so that of equal segments the last is kept.
ScoreStep_last_tie(acc, segment_text, i, phrase, words) ==
    LET a1 == IF IsSubstring(phrase, segment_text) /\ Len(phrase) >= acc.score
              THEN [score |-> Len(phrase), seg |-> i]
              ELSE acc
        wm == words_match(words, segment_text)
    IN  IF wm >= 3 /\ wm >= a1.score THEN [score |-> wm, seg |-> i] ELSE a1

\* One pass of a scoring loop over segment i: first the phrase test, then the
\* word-overlap test, each replacing the best segment only on a strictly
\* higher score.  acc = [score, seg] with seg = 0 for None.
ScoreStep(acc, segment_text, i, phrase, words) ==
    LET a1 == IF IsSubstring(phrase, segment_text) /\ Len(phrase) > acc.score
              THEN [score |-> Len(phrase), seg |-> i]
              ELSE acc
        wm == words_match(words, segment_text)
    IN  IF wm >= 3 /\ wm > a1.score THEN [score |-> wm, seg |-> i] ELSE a1

RECURSIVE ScoreLoop(_, _, _, _, _)
ScoreLoop(acc, segs, i, phrase, words) ==
    IF i > Len(segs) THEN acc
    ELSE ScoreLoop(ScoreStep(acc, segment_text_of(segs[i]), i, phrase, words),
                   segs, i + 1, phrase, words)

\* Index of start_segment after the first loop (0: None).
start_segment_of(text, segs) ==
    LET cw == chunk_words_of(text)
    IN  ScoreLoop([score |-> 0, seg |-> 0], segs, 1,
                  lower(join(FirstN(cw, 5))), FirstN(cw, 10)).seg

\* Index of end_segment after the second loop (0: None).
end_segment_of(text, segs) ==
    LET cw == chunk_words_of(text)
    IN  ScoreLoop([score |-> 0, seg |-> 0], segs, 1,
                  lower(join(LastN(cw, 5))), LastN(cw, 10)).seg

\* A faulty variant of fallback_segment_of: the last of the segments holding
\* enough of the chunk's words.
fallback_segment_last(cw, segs, i) ==
    LET enough == {k \in i..Len(segs) :
                      words_match(cw, segment_text_of(segs[k]))
                          >= Min(5, Len(cw) \div 2)}
    IN  IF enough = {} THEN 0 ELSE CHOOSE k \in enough : \A j \in enough : j <= k

\* The fallback loop: the first segment holding enough of the chunk's words
\* (0: none does).
RECURSIVE fallback_segment_of(_, _, _)
fallback_segment_of(cw, segs, i) ==
    IF i > Len(segs) THEN 0
    ELSE IF words_match(cw, segment_text_of(segs[i])) >= Min(5, Len(cw) \div 2)
         THEN i
         ELSE fallback_segment_of(cw, segs, i + 1)

\* A faulty variant of find_chunk_timestamps: the short-chunk shortcut taken
\* for chunks of fewer than five words instead of fewer than three.
find_chunk_timestamps_short(text, segs) ==
    IF segs = <<>> THEN ZeroRange
    ELSE LET cw == chunk_words_of(text)
         IN  IF Len(cw) < 5 THEN SegmentRange(segs[1], segs[1])
             ELSE LET s == start_segment_of(text, segs)
                      e == end_segment_of(text, segs)
                      f == fallback_segment_of(cw, segs, 1)
                  IN  IF s # 0 /\ e # 0 THEN SegmentRange(segs[s], segs[e])
                      ELSE IF f # 0 THEN SegmentRange(segs[f], segs[f])
                      ELSE SegmentRange(segs[1], segs[1])

\* A faulty variant of find_chunk_timestamps: the zero range, not the first
\* segment's, when no segment matches.
find_chunk_timestamps_zero_fallback(text, segs) ==
    IF segs = <<>> THEN ZeroRange
    ELSE LET cw == chunk_words_of(text)
         IN  IF Len(cw) < 3 THEN SegmentRange(segs[1], segs[1])
             ELSE LET s == start_segment_of(text, segs)
                      e == end_segment_of(text, segs)
                      f == fallback_segment_of(cw, segs, 1)
                  IN  IF s # 0 /\ e # 0 THEN SegmentRange(segs[s], segs[e])
                      ELSE IF f # 0 THEN SegmentRange(segs[f], segs[f])
                      ELSE ZeroRange

\* A faulty variant of find_chunk_timestamps: no shortcut for short chunks.
find_chunk_timestamps_no_shortcut(text, segs) ==
    IF segs = <<>> THEN ZeroRange
    ELSE LET cw == chunk_words_of(text)
             s == start_segment_of(text, segs)
             e == end_segment_of(text, segs)
             f == fallback_segment_of(cw, segs, 1)
         IN  IF s # 0 /\ e # 0 THEN SegmentRange(segs[s], segs[e])
             ELSE IF f # 0 THEN SegmentRange(segs[f], segs[f])
             ELSE SegmentRange(segs[1], segs[1])

find_chunk_timestamps(text, segs) ==
    IF segs = <<>> THEN ZeroRange
    ELSE LET cw == chunk_words_of(text)
         IN  IF Len(cw) < 3 THEN SegmentRange(segs[1], segs[1])
             ELSE LET s == start_segment_of(text, segs)
                      e == end_segment_of(text, segs)
                      f == fallback_segment_of(cw, segs, 1)
                  IN  IF s # 0 /\ e # 0 THEN SegmentRange(segs[s], segs[e])
                      ELSE IF f # 0 THEN SegmentRange(segs[f], segs[f])
                      ELSE SegmentRange(segs[1], segs[1])

\* ------------------------------------------------------------ aligner inputs
\* Word sequences over "a" with at most one "b", 1..n words long.
WordSeqs(n) ==
    {[i \in 1..len |-> IF i = p THEN <<"b">> ELSE <<"a">>] :
        len \in 1..n, p \in 0..n}

\* Transcripts: the same, transcripts of a word ("c") no chunk contains, and
\* such transcripts with "b" for their last word.
Transcripts ==
    WordSeqs(MaxTranscript)
        \cup {[i \in 1..len |-> <<"c">>] : len \in 1..MaxTranscript}
        \cup {[i \in 1..len |-> IF i = len THEN <<"b">> ELSE <<"c">>] :
                 len \in 2..MaxTranscript}

UpperChar(c) ==
    CASE c = "a" -> "A"
      [] c = "b" -> "B"
      [] c = "c" -> "C"
      [] OTHER -> c

\* A text as the transcript source writes it: plain, or capitalised and padded
\* with blanks.
Render(words, style) ==
    LET s == join(words)
    IN  IF style = "plain" THEN s
        ELSE <<Space, UpperChar(Head(s))>> \o Tail(s) \o <<Space>>

\* How a transcript is written and timed: the style of its texts, the
\* seconds between one segment's end and the next one's start, and the second
\* its first segment starts at.
Variants ==
    {[style |-> "plain", gap |-> 1, offset |-> 0],
     [style |-> "padded", gap |-> 0, offset |-> 1]}

ChunkTexts(style) == {Render(w, style) : w \in WordSeqs(MaxWords)}

\* A segment as the transcript source produces it (audio_transcriber.py):
\* whole seconds, start_time/end_time formatted from them.
Segment(s, e, text) ==
    [start_seconds |-> s, end_seconds |-> e, text |-> text,
     start_time |-> format_time(s), end_time |-> format_time(e)]

\* The k-th smallest element of a set of numbers.
Kth(S, k) == CHOOSE x \in S : Cardinality({y \in S : y < x}) = k - 1

\* The transcript t cut after the word positions in `cuts` into consecutive
\* segments in order, two seconds each, v.gap seconds apart, from second
\* v.offset on.
CutSegments(t, cuts, v) ==
    LET bounds == {0, Len(t)} \cup cuts
    IN  [k \in 1..(Cardinality(bounds) - 1) |->
            Segment(v.offset + (k - 1) * (2 + v.gap),
                    v.offset + (k - 1) * (2 + v.gap) + 2,
                    Render(SubSeq(t, Kth(bounds, k) + 1, Kth(bounds, k + 1)),
                           v.style))]

\* Every segment list of at most MaxSegs segments, the empty one included.
SegmentLists(v) ==
    {<<>>} \cup
    {CutSegments(t, cuts, v) :
        <<t, cuts>> \in {tc \in Transcripts \X SUBSET (1..(MaxTranscript - 1)) :
                            /\ Cardinality(tc[2]) < MaxSegs
                            /\ \A c \in tc[2] : c < Len(tc[1])}}

\* The scenario of the specification's section 8.
ScenarioSegments ==
    <<Segment(0, 5, <<"h", "e", "l", "l", "o", " ", "w", "o", "r", "l", "d", " ", "t", "o", "d", "a", "y">>),
      Segment(5, 12, <<"w", "e", " ", "d", "i", "s", "c", "u", "s", "s", " ", "r", "o", "c", "k", "e", "t", "s">>)>>
ScenarioChunk ==
    <<"t", "o", "d", "a", "y", " ", "w", "e", " ", "d", "i", "s", "c", "u", "s", "s", " ", "r", "o", "c", "k", "e", "t", "s">>

\* ------------------------------------------------------------- chunks files
Collections == {"video_a", "video_b"}

\* The texts and embeddings of the chunks a chunks file may hold: the chunker
\* derives a chunk's unique_id and its embedding from its text, so the id
\* fixes both.  Embeddings are points on a line; a distance is the squared
\* difference, in tenths.
\* d.get(key, default), for a dict d with the keys d.keys.
get(d, key, default) == IF key \in d.keys THEN d[key] ELSE default

\* int(x), for a number of seconds x >= 0 written in tenths of a second.
int_of(x) == x \div 10

\* The video's URL, a YouTube one, and one that is not.
YouTubeUrl == <<"y", "o", "u", "t", "u", "b", "e", ".", "c", "o", "m", "/", "w">>
OtherUrl == <<"v", "i", "m", "e", "o", ".", "c", "o", "m", "/", "w">>

\* The fields of a chunk that go to its metadata.
MetadataKeys ==
    {"video_title", "video_url", "start_time", "end_time", "start_seconds"}

TextOf(u) ==
    CASE u % 3 = 1 -> <<"a">>
      [] u % 3 = 2 -> <<"b">>
      [] OTHER -> <<"A", " ", "b">>
EmbOf(u) == u % 4

\* One chunk of a chunks file, a JSON object: the keys it has and their
\* values.  Its embedding is a list of `dim` numbers, or no list at all; its
\* chunk_id is its position in its video; chunk u starts 5 (u - 1) seconds
\* into the video (start_seconds in tenths of a second) and lasts 5 seconds.
Defects ==
    {"ok", "no_unique_id", "no_embedding", "no_text", "not_a_list",
     "wrong_dimension"}
InputChunk(u, defect) ==
    [keys |-> ({"unique_id", "embedding", "text"} \cup MetadataKeys)
                \ (CASE defect = "no_unique_id" -> {"unique_id"}
                     [] defect = "no_embedding" -> {"embedding"}
                     [] defect = "no_text" -> {"text"}
                     [] OTHER -> {}),
     unique_id |-> u,
     chunk_id |-> u - 1,
     embedding |-> [is_list |-> defect # "not_a_list",
                    dim |-> IF defect = "wrong_dimension" THEN DIM - 1 ELSE DIM,
                    val |-> EmbOf(u)],
     text |-> TextOf(u),
     video_title |-> "T",
     video_url |-> YouTubeUrl,
     start_time |-> format_time(5 * (u - 1)),
     end_time |-> format_time(5 * u),
     start_seconds |-> 50 * (u - 1)]

InputChunks == {InputChunk(u, d) : u \in 1..NIds, d \in Defects}

\* A chunk that the index store must accept: every required field, an
\* embedding that is a list of DIM numbers.
IsValidChunk(c) ==
    /\ {"unique_id", "embedding", "text"} \subseteq c.keys
    /\ c.embedding.is_list
    /\ c.embedding.dim = DIM

\* The chunks files: 1..MaxFile chunks, at most one of them defective.
ChunksFiles ==
    {f \in UNION {[1..n -> InputChunks] : n \in 1..MaxFile} :
        Cardinality({i \in 1..Len(f) : ~IsValidChunk(f[i])}) <= 1}

ValidIds(chunks) ==
    {chunks[i].unique_id : i \in {j \in 1..Len(chunks) : IsValidChunk(chunks[j])}}

\* ------------------------------------------------------- ChromaDB (library)
EmptyCollection ==
    [dimension |-> 0, ids |-> <<>>, embeddings |-> <<>>, documents |-> <<>>,
     metadatas |-> <<>>]

\* client.get_collection, and client.create_collection when it raises:
\* the collection, created empty if it did not exist.
setup_chromadb(db, collection_name) ==
    IF db[collection_name] = NoValue
    THEN [db EXCEPT ![collection_name] = EmptyCollection]
    ELSE db

\* Positions of `ids` whose id the collection does not hold yet.
NewPositions(coll, ids) == {i \in 1..Len(ids) : ids[i] \notin Range(coll.ids)}

\* The subsequence of s at the positions in P, in order.
RECURSIVE Pick(_, _, _)
Pick(s, P, i) ==
    IF i > Len(s) THEN <<>>
    ELSE (IF i \in P THEN <<s[i]>> ELSE <<>>) \o Pick(s, P, i + 1)

\* collection.add raises on an id given twice in the call and on embeddings
\* that differ in dimension from each other or from the collection's.
collection_add_raises(coll, ids, embeddings) ==
    \/ Cardinality(Range(ids)) # Len(ids)
    \/ \E i \in 1..Len(embeddings) :
          \/ embeddings[i].dim # embeddings[1].dim
          \/ coll.dimension \notin {0, embeddings[i].dim}

\* collection.add when it does not raise: the records are appended; a record
\* whose id the collection already holds is ignored.
collection_add(coll, ids, embeddings, documents, metadatas) ==
    LET P == NewPositions(coll, ids)
    IN  [dimension |-> embeddings[1].dim,
         ids |-> coll.ids \o Pick(ids, P, 1),
         embeddings |-> coll.embeddings \o Pick(embeddings, P, 1),
         documents |-> coll.documents \o Pick(documents, P, 1),
         metadatas |-> coll.metadatas \o Pick(metadatas, P, 1)]

\* ------------------------------------------ qa.py: add_chunks_to_chromadb
\* The metadata stored with a chunk: every key, with its default where the
\* chunk lacks it (the chunker writes start_time and end_time to every chunk).
metadata_of(c) ==
    [keys |-> MetadataKeys,
     chunk_id |-> c.chunk_id,
     video_title |-> get(c, "video_title", "Unknown"),
     video_url |-> get(c, "video_url", <<>>),
     start_time |-> c.start_time,
     end_time |-> c.end_time,
     start_seconds |-> get(c, "start_seconds", 0)]

\* The validation loop over the file's chunks, from chunk i on: the four
\* lists it builds.  The id is appended before the embedding is checked.
RECURSIVE add_lists(_, _, _)
add_lists(chunks, i, acc) ==
    IF i > Len(chunks) THEN acc
    ELSE LET c == chunks[i]
         IN  IF \/ "unique_id" \notin c.keys
                \/ "embedding" \notin c.keys
                \/ "text" \notin c.keys
             THEN add_lists(chunks, i + 1, acc)
             ELSE IF ~c.embedding.is_list
             THEN add_lists(chunks, i + 1,
                            [acc EXCEPT !.ids = Append(@, c.unique_id)])
             ELSE CHOOSE lists \in
                      {add_lists(chunks, i + 1, next_acc) : next_acc \in
                          {[ids |-> Append(acc.ids, c.unique_id),
                            embeddings |-> Append(acc.embeddings, c.embedding),
                            documents |-> Append(acc.documents, c.text),
                            metadatas |-> Append(acc.metadatas,
                                                 metadata_of(c))]}} : TRUE

EmptyLists ==
    [ids |-> <<>>, embeddings |-> <<>>, documents |-> <<>>, metadatas |-> <<>>]

\* The batch loop from batch batch_num on: each batch is added in turn; the
\* first batch whose add raises ends the call with None, the batches before
\* it stay written.
RECURSIVE add_batches(_, _, _)
add_batches(coll, lists, batch_num) ==
    LET start_idx == batch_num * BATCH_SIZE
        end_idx == Min((batch_num + 1) * BATCH_SIZE, Len(lists.ids))
        ids == SubSeq(lists.ids, start_idx + 1, end_idx)
        embeddings == SubSeq(lists.embeddings, start_idx + 1, end_idx)
    IN  IF start_idx >= Len(lists.ids) THEN [ret |-> "collection", coll |-> coll]
        ELSE IF collection_add_raises(coll, ids, embeddings)
        THEN [ret |-> "None", coll |-> coll]
        ELSE add_batches(
                 collection_add(coll, ids, embeddings,
                                SubSeq(lists.documents, start_idx + 1, end_idx),
                                SubSeq(lists.metadatas, start_idx + 1, end_idx)),
                 lists, batch_num + 1)

\* A faulty variant of add_chunks_to_chromadb: the collection name is not
\* passed on, and every file goes to the collection of the default name.
add_chunks_to_default(db, chunks, collection_name) ==
    Once(setup_chromadb(db, "video_a"), LAMBDA db1 :
    Once(add_lists(chunks, 1, EmptyLists), LAMBDA lists :
        IF ~(Len(lists.ids) = Len(lists.embeddings)
             /\ Len(lists.embeddings) = Len(lists.documents)
             /\ Len(lists.documents) = Len(lists.metadatas))
        THEN [ret |-> "None", db |-> db1]
        ELSE IF Len(lists.ids) = 0 THEN [ret |-> "None", db |-> db1]
        ELSE Once(add_batches(db1["video_a"], lists, 0), LAMBDA r :
                 [ret |-> r.ret,
                  db |-> [db1 EXCEPT !["video_a"] = r.coll]])))

\* add_chunks_to_chromadb(chunks_file, collection_name) on the database db:
\* what it returns and the database it leaves.
add_chunks_to_chromadb(db, chunks, collection_name) ==
    Once(setup_chromadb(db, collection_name), LAMBDA db1 :
    Once(add_lists(chunks, 1, EmptyLists), LAMBDA lists :
        IF ~(Len(lists.ids) = Len(lists.embeddings)
             /\ Len(lists.embeddings) = Len(lists.documents)
             /\ Len(lists.documents) = Len(lists.metadatas))
        THEN [ret |-> "None", db |-> db1]
        ELSE IF Len(lists.ids) = 0 THEN [ret |-> "None", db |-> db1]
        ELSE Once(add_batches(db1[collection_name], lists, 0), LAMBDA r :
                 [ret |-> r.ret,
                  db |-> [db1 EXCEPT ![collection_name] = r.coll]])))

\* ------------------------------------------------ qa.py: build_bm25_index
\* BM25Okapi(tokenized_docs).get_scores(tokenized_query): rank_bm25's weights
\* are not part of the repository; a document's score is taken to be the
\* number of occurrences of the query's tokens in it, which is positive
\* exactly for the documents that share a token with the query.
get_scores(tokenized_docs, tokenized_query) ==
    [i \in 1..Len(tokenized_docs) |->
        Cardinality({<<j, n>> \in (1..Len(tokenized_query))
                                    \X (1..Len(tokenized_docs[i])) :
                        tokenized_query[j] = tokenized_docs[i][n]})]

\* The cache entry made from collection.get(): the tokenized documents (the
\* BM25 index), the documents, the metadatas and the ids.
bm25_data_of(all_results) ==
    [tokenized_docs |->
        [i \in 1..Len(all_results.documents) |->
            split(lower(all_results.documents[i]))],
     documents |-> all_results.documents,
     metadatas |-> all_results.metadatas,
     ids |-> all_results.ids]

\* A faulty variant of build_bm25_index: the index built from no document
\* is stored in the cache as well.
build_bm25_index_caching_empty(db, cache, collection_name, build_fails) ==
    IF cache[collection_name] # NoValue
    THEN [data |-> IF cache[collection_name].ids = <<>> THEN NoValue
                   ELSE cache[collection_name],
          cache |-> cache, db |-> db]
    ELSE IF build_fails
    THEN [data |-> NoValue, cache |-> cache,
          db |-> setup_chromadb(db, collection_name)]
    ELSE Once(setup_chromadb(db, collection_name), LAMBDA db1 :
         Once(bm25_data_of(db1[collection_name]), LAMBDA data :
             [data |-> IF data.ids = <<>> THEN NoValue ELSE data,
              cache |-> [cache EXCEPT ![collection_name] = data],
              db |-> db1]))

\* build_bm25_index(collection_name): the index it returns (NoValue for
\* None), the cache and the database it leaves.  build_fails: reading the
\* collection or building the index raises; the handler of `except
\* Exception` returns None.
build_bm25_index_with(db, cache, collection_name, build_fails) ==
    IF cache[collection_name] # NoValue
    THEN [data |-> cache[collection_name], cache |-> cache, db |-> db]
    ELSE IF build_fails
    THEN [data |-> NoValue, cache |-> cache,
          db |-> setup_chromadb(db, collection_name)]
    ELSE Once(setup_chromadb(db, collection_name), LAMBDA db1 :
         Once(db1[collection_name], LAMBDA all_results :
             IF all_results.documents = <<>>
             THEN [data |-> NoValue, cache |-> cache, db |-> db1]
             ELSE Once(bm25_data_of(all_results),
                       LAMBDA data :
                           [data |-> data,
                            cache |-> [cache EXCEPT ![collection_name] = data],
                            db |-> db1])))

\* build_bm25_index when nothing in it raises.
build_bm25_index(db, cache, collection_name) ==
    build_bm25_index_with(db, cache, collection_name, FALSE)

\* ---------------------------------------------------- qa.py: search_videos
\* A query: its text and the point its embedding is.
Query(text, emb) == [text |-> text, emb |-> emb]

distance(embedding, query) ==
    (embedding.val - query.emb) * (embedding.val - query.emb)

\* The positions 1..n ordered by key, smallest first; equal keys keep the
\* order of the positions (reversed when ties_last_first).
RECURSIVE OrderBy(_, _, _)
OrderBy(P, key, ties_last_first) ==
    IF P = {} THEN <<>>
    ELSE LET least == {i \in P : \A j \in P : key[i] <= key[j]}
             i == IF ties_last_first
                  THEN CHOOSE x \in least : \A y \in least : y <= x
                  ELSE CHOOSE x \in least : \A y \in least : x <= y
         IN  <<i>> \o OrderBy(P \ {i}, key, ties_last_first)

\* collection.query raises when the query's embedding (DIM numbers) does not
\* fit the collection's dimension.
collection_query_raises(coll) == coll.dimension \notin {0, DIM}

\* collection.query(query_texts=[query], n_results=n): the n nearest records,
\* nearest first.
collection_query(coll, query, n) ==
    Once([i \in 1..Len(coll.ids) |-> distance(coll.embeddings[i], query)],
         LAMBDA dist :
    Once(FirstN(OrderBy(1..Len(coll.ids), dist, FALSE), n), LAMBDA top :
        [ids |-> [r \in 1..Len(top) |-> coll.ids[top[r]]],
         documents |-> [r \in 1..Len(top) |-> coll.documents[top[r]]],
         metadatas |-> [r \in 1..Len(top) |-> coll.metadatas[top[r]]],
         distances |-> [r \in 1..Len(top) |-> dist[top[r]]]]))

\* np.argsort(bm25_scores)[::-1][:n]: the positions of the n highest scores,
\* highest first (argsort's order of equal scores, reversed).
top_indices_of(bm25_scores, n) ==
    FirstN(OrderBy(1..Len(bm25_scores),
                   [i \in 1..Len(bm25_scores) |-> 0 - bm25_scores[i]], TRUE), n)

\* The ids of the BM25 results: those of top_indices with a positive score.
bm25_ids_of(bm25_data, query, n) ==
    IF bm25_data = NoValue THEN <<>>
    ELSE Once(get_scores(bm25_data.tokenized_docs, split(lower(query.text))),
              LAMBDA bm25_scores :
         Once(top_indices_of(bm25_scores, n), LAMBDA top_indices :
         Once(Pick(top_indices,
                   {p \in 1..Len(top_indices) : bm25_scores[top_indices[p]] > 0},
                   1),
              LAMBDA kept : [r \in 1..Len(kept) |-> bm25_data.ids[kept[r]]])))

\* A faulty variant of combined_docs_of: no boost for the BM25 results.
combined_docs_dense_only(vector_results, bm25_ids) ==
    [r \in 1..Len(vector_results.ids) |->
        [id |-> vector_results.ids[r],
         text |-> vector_results.documents[r],
         metadata |-> vector_results.metadatas[r],
         score |-> ONE - vector_results.distances[r]]]

\* A faulty variant of combined_docs_of: a BM25 result that is no vector
\* result joins the candidates, with the full score and the boost.
combined_docs_with_lexical(vector_results, bm25_ids) ==
    [r \in 1..Len(vector_results.ids) |->
        [id |-> vector_results.ids[r],
         text |-> vector_results.documents[r],
         metadata |-> vector_results.metadatas[r],
         score |-> (ONE - vector_results.distances[r])
                   + BOOST * Cardinality({j \in 1..Len(bm25_ids) :
                                            bm25_ids[j] = vector_results.ids[r]})]]
    \o Once(Pick(bm25_ids, {j \in 1..Len(bm25_ids) :
                               bm25_ids[j] \notin Range(vector_results.ids)}, 1),
            LAMBDA only :
                [r \in 1..Len(only) |->
                    [id |-> only[r], text |-> <<>>,
                     metadata |-> [keys |-> {}, chunk_id |-> only[r] - 1],
                     score |-> ONE + BOOST]])

\* combined_docs after both loops, in insertion order: every vector result
\* with score 1.0 - distance, plus 0.5 for each BM25 result with its id.
combined_docs_of(vector_results, bm25_ids) ==
    [r \in 1..Len(vector_results.ids) |->
        [id |-> vector_results.ids[r],
         text |-> vector_results.documents[r],
         metadata |-> vector_results.metadatas[r],
         score |-> (ONE - vector_results.distances[r])
                   + BOOST * Cardinality({j \in 1..Len(bm25_ids) :
                                            bm25_ids[j] = vector_results.ids[r]})]]

\* A faulty variant of sorted_reverse: an item goes before the items of equal
\* score that came before it.
RECURSIVE sorted_reverse_unstable(_)
sorted_reverse_unstable(items) ==
    IF items = <<>> THEN <<>>
    ELSE Once(sorted_reverse_unstable(SubSeq(items, 1, Len(items) - 1)),
              LAMBDA rest :
         Once(items[Len(items)], LAMBDA x :
         Once(Cardinality({i \in 1..Len(rest) : rest[i].score > x.score}),
              LAMBDA n :
                  SubSeq(rest, 1, n) \o <<x>> \o SubSeq(rest, n + 1, Len(rest)))))

\* sorted(items, key=score, reverse=True): highest score first, items of
\* equal score in their original order.
RECURSIVE sorted_reverse(_)
sorted_reverse(items) ==
    IF items = <<>> THEN <<>>
    ELSE Once(sorted_reverse(SubSeq(items, 1, Len(items) - 1)), LAMBDA rest :
         Once(items[Len(items)], LAMBDA x :
         Once(Cardinality({i \in 1..Len(rest) : rest[i].score >= x.score}),
              LAMBDA n :
                  SubSeq(rest, 1, n) \o <<x>> \o SubSeq(rest, n + 1, Len(rest)))))

EmptyResults ==
    [ids |-> <<>>, documents |-> <<>>, metadatas |-> <<>>, distances |-> <<>>]

\* Steps 3 and 4 of search_videos: the candidates combined, sorted, cut to
\* n_results and formatted.
fused_results(vector_results, bm25_ids, n_results) ==
    Once(FirstN(sorted_reverse(combined_docs_of(vector_results, bm25_ids)),
                n_results),
         LAMBDA sorted_results :
             [ids |-> [r \in 1..Len(sorted_results) |-> sorted_results[r].id],
              documents |->
                 [r \in 1..Len(sorted_results) |-> sorted_results[r].text],
              metadatas |->
                 [r \in 1..Len(sorted_results) |-> sorted_results[r].metadata],
              distances |->
                 [r \in 1..Len(sorted_results) |->
                     ONE - sorted_results[r].score]])

\* A faulty variant of search_except: the exception leaves search_videos.
search_reraise(db, cache) ==
    [results |-> EmptyResults, raised |-> TRUE,
     vector_ids |-> <<>>, bm25_ids |-> <<>>, index_ids |-> <<>>,
     db |-> db, cache |-> cache]

\* The handler of search_videos' `except Exception`: the exception is printed,
\* not raised, and the empty result is returned.
search_except(db, cache) ==
    [results |-> EmptyResults, raised |-> FALSE,
     vector_ids |-> <<>>, bm25_ids |-> <<>>, index_ids |-> <<>>,
     db |-> db, cache |-> cache]

\* search_videos(query, collection_name, n_results): what it returns, what
\* it computed on the way, and the database and the cache it leaves.
\* failures: what raises on the way, of "collection" (setup_chromadb),
\* "query" (the embedding of the query or the vector query) and "bm25"
\* (build_bm25_index's reading and building).
search_videos_with(db, cache, query, collection_name, n_results, failures) ==
    IF "collection" \in failures THEN search_except(db, cache)
    ELSE
    Once(setup_chromadb(db, collection_name), LAMBDA db1 :
    Once(db1[collection_name], LAMBDA collection :
        IF "query" \in failures \/ collection_query_raises(collection)
        THEN search_except(db1, cache)
        ELSE
    Once(collection_query(collection, query, n_results * 2),
         LAMBDA vector_results :
    Once(build_bm25_index_with(db1, cache, collection_name,
                               "bm25" \in failures), LAMBDA b :
    Once(bm25_ids_of(b.data, query, n_results * 2), LAMBDA bm25_ids :
             [results |-> fused_results(vector_results, bm25_ids, n_results),
              raised |-> FALSE,
              vector_ids |-> vector_results.ids,
              bm25_ids |-> bm25_ids,
              index_ids |-> IF b.data = NoValue THEN <<>> ELSE b.data.ids,
              db |-> b.db, cache |-> b.cache])))))

\* search_videos with, at most, a failure of the query.
search_videos(db, cache, query, collection_name, n_results, query_fails) ==
    search_videos_with(db, cache, query, collection_name, n_results,
                       IF query_fails THEN {"query"} ELSE {})

\* -------------------------------------------------- qa.py: answer_question
\* The citation of the i-th retrieved chunk.
\* The text "Source i: '<title>'[ at <start_time>][ (<url>&t=<t>s)]", by
\* its parts: `at` holds the times written after " at " (joined by "-"),
\* `link` the URL and the t of the parenthesized link, if it is written.
citation_of(i, metadata) ==
    [source |-> i,
     title |-> get(metadata, "video_title", "Unknown"),
     at |-> IF "start_time" \in metadata.keys
            THEN <<metadata.start_time>> ELSE <<>>,
     link |-> IF /\ get(metadata, "video_url", <<>>) # <<>>
                 /\ get(metadata, "start_seconds", 0) # 0
              THEN <<[url |-> metadata.video_url,
                      t |-> int_of(get(metadata, "start_seconds", 0))]>>
              ELSE <<>>]

citations_of(results) ==
    [i \in 1..Len(results.documents) |-> citation_of(i, results.metadatas[i])]

\* A faulty variant of answer_question_with: the language model is called
\* before the results are looked at.
answer_question_llm_first(db, cache, query, collection_name, failures, llm_ok) ==
    Once(search_videos_with(db, cache, query, collection_name,
                            ANSWER_N_RESULTS, failures),
         LAMBDA s :
             [answer |->
                 IF ~llm_ok
                 THEN [kind |-> "error_generating_answer", raised |-> FALSE,
                       llm_called |-> TRUE,
                       texts |-> <<>>, citations |-> <<>>]
                 ELSE IF s.results.documents = <<>>
                 THEN [kind |-> "no_relevant_information", raised |-> FALSE,
                       llm_called |-> TRUE,
                       texts |-> <<>>, citations |-> <<>>]
                 ELSE [kind |-> "generated", raised |-> FALSE,
                       llm_called |-> TRUE,
                       texts |-> <<>>, citations |-> citations_of(s.results)],
              results |-> s.results, db |-> s.db, cache |-> s.cache])

\* A faulty variant of answer_question_with: no handler around the call of
\* the language model, whose exception leaves answer_question.
answer_question_no_except(db, cache, query, collection_name, failures, llm_ok) ==
    Once(search_videos_with(db, cache, query, collection_name,
                            ANSWER_N_RESULTS, failures),
         LAMBDA s :
             [answer |->
                 IF s.results.documents = <<>>
                 THEN [kind |-> "no_relevant_information", raised |-> FALSE,
                       llm_called |-> FALSE,
                       texts |-> <<>>, citations |-> <<>>]
                 ELSE IF llm_ok
                 THEN [kind |-> "generated", raised |-> FALSE,
                       llm_called |-> TRUE,
                       texts |-> <<>>, citations |-> citations_of(s.results)]
                 ELSE [kind |-> "exception", raised |-> TRUE,
                       llm_called |-> TRUE,
                       texts |-> <<>>, citations |-> <<>>],
              results |-> s.results, db |-> s.db, cache |-> s.cache])

\* answer_question(query, collection_name): the string it returns, by kind
\* ("No relevant information found.", the generated answer with its sources,
\* or "Error generating answer: ..."), and the database and cache it leaves.
\* llm_ok: the call of the language model returns.  Whatever raises inside
\* it is caught by its `except Exception`.
answer_question_with(db, cache, query, collection_name, failures, llm_ok) ==
    Once(search_videos_with(db, cache, query, collection_name,
                            ANSWER_N_RESULTS, failures),
         LAMBDA s :
             [answer |->
                 IF s.raised
                 THEN [kind |-> "error_generating_answer", raised |-> FALSE,
                       llm_called |-> FALSE,
                       texts |-> <<>>, citations |-> <<>>]
                 ELSE IF s.results.documents = <<>>
                 THEN [kind |-> "no_relevant_information", raised |-> FALSE,
                       llm_called |-> FALSE,
                       texts |-> <<>>, citations |-> <<>>]
                 ELSE IF llm_ok
                 THEN [kind |-> "generated", raised |-> FALSE,
                       llm_called |-> TRUE,
                       texts |-> <<>>, citations |-> citations_of(s.results)]
                 ELSE [kind |-> "error_generating_answer", raised |-> FALSE,
                       llm_called |-> TRUE,
                       texts |-> <<>>, citations |-> <<>>],
              results |-> s.results, db |-> s.db, cache |-> s.cache])

\* answer_question with, at most, a failure of the query.
answer_question(db, cache, query, collection_name, query_fails, llm_ok) ==
    answer_question_with(db, cache, query, collection_name,
                         IF query_fails THEN {"query"} ELSE {}, llm_ok)

\* ------------------------------------------- faiss_qa.py: FAISSVectorStore
\* chunk.get('unique_id', f'chunk_{i}'): the default id of the chunk at
\* position i (from 0) is written as the negative number -(i + 1).
DefaultId(i) == 0 - (i + 1)

\* The loop over the file's chunks, from chunk i on: the lists it builds.
RECURSIVE faiss_lists(_, _, _)
faiss_lists(chunks, i, acc) ==
    IF i > Len(chunks) THEN acc
    ELSE LET c == chunks[i]
         IN  IF \/ "embedding" \notin c.keys
                \/ ~c.embedding.is_list
                \/ c.embedding.dim # DIM
             THEN faiss_lists(chunks, i + 1, acc)
             ELSE faiss_lists(chunks, i + 1,
                     [ids |-> Append(acc.ids,
                                     IF "unique_id" \in c.keys THEN c.unique_id
                                     ELSE DefaultId(i - 1)),
                      embeddings |-> Append(acc.embeddings, c.embedding),
                      documents |-> Append(acc.documents,
                                           IF "text" \in c.keys THEN c.text
                                           ELSE <<>>),
                      metadatas |-> Append(acc.metadatas, metadata_of(c))])

\* add_chunks(chunks_file, collection_name): True or False, and the files it
\* leaves: a new index and new metadata written over the collection's files.
add_chunks(store, chunks, collection_name) ==
    Once(faiss_lists(chunks, 1, EmptyLists), LAMBDA lists :
        IF Len(chunks) = 0 \/ Len(lists.embeddings) = 0
        THEN [ret |-> FALSE, store |-> store]
        ELSE [ret |-> TRUE,
              store |-> [store EXCEPT ![collection_name] =
                            [index |-> lists.embeddings,
                             documents |-> lists.documents,
                             metadatas |-> lists.metadatas,
                             ids |-> lists.ids]]])

\* search(query, collection_name, n_results): the min(n_results, count)
\* most similar chunks, most similar first.
faiss_search(store, query, collection_name, n_results, query_fails) ==
    IF store[collection_name] = NoValue \/ query_fails
    THEN EmptyResults
    ELSE Once(store[collection_name], LAMBDA data :
         Once([i \in 1..Len(data.index) |-> distance(data.index[i], query)],
              LAMBDA dist :
         Once(FirstN(OrderBy(1..Len(data.index), dist, FALSE),
                     Min(n_results, Len(data.documents))),
              LAMBDA top_indices :
             [ids |-> [r \in 1..Len(top_indices) |-> data.ids[top_indices[r]]],
              documents |->
                 [r \in 1..Len(top_indices) |-> data.documents[top_indices[r]]],
              metadatas |->
                 [r \in 1..Len(top_indices) |-> data.metadatas[top_indices[r]]],
              distances |->
                 [r \in 1..Len(top_indices) |-> dist[top_indices[r]]]])))

\* faiss_qa.answer_question: as qa.answer_question, but a failing language
\* model gives the template answer: the first two documents and the sources.
faiss_answer_question(store, query, collection_name, query_fails, llm_ok) ==
    Once(faiss_search(store, query, collection_name, ANSWER_N_RESULTS,
                      query_fails),
         LAMBDA results :
             IF results.documents = <<>>
             THEN [kind |-> "no_relevant_information", raised |-> FALSE,
                       llm_called |-> FALSE,
                   texts |-> <<>>, citations |-> <<>>]
             ELSE IF llm_ok
             THEN [kind |-> "generated", raised |-> FALSE,
                       llm_called |-> TRUE,
                   texts |-> <<>>, citations |-> citations_of(results)]
             ELSE [kind |-> "template", raised |-> FALSE,
                   llm_called |-> TRUE,
                   texts |-> FirstN(results.documents, 2),
                   citations |-> citations_of(results)])

\* ---------------------------------------------------- stores: state machine
\* The collection the calls of Spec and SpecFaiss work on.
MainCollections == {"video_a"}

QueryTexts == {<<"a">>, <<"B">>, <<"c">>}
QueryEmbs == {0, 2}
Queries == {Query(t, e) : t \in QueryTexts, e \in QueryEmbs}

\* The threads a front end runs next to its main loop: one that answers a
\* question, two that process a video each.
Threads == {"ask", "process_1", "process_2"}

\* The front end before any video: nothing under rag_data, nothing processed,
\* an empty chat, the Process button enabled.
NoVideos ==
    [videos |-> {}, processed_videos |-> {}, chat_history |-> <<>>,
     process_btn |-> "normal"]

\* The ids a collection holds (none if it does not exist).
StoredIds(coll) == IF coll = NoValue THEN {} ELSE Range(coll.ids)

StoreInit ==
    /\ chroma = [c \in Collections |-> NoValue]
    /\ bm25_cache = [c \in Collections |-> NoValue]
    /\ faiss_store = [c \in Collections |-> NoValue]
    /\ last = [op |-> "none"]
    /\ threads = [t \in Threads |-> [pc |-> "idle"]]
    /\ ui = NoVideos

AlignIdle ==
    /\ chunk_text = <<>>
    /\ segments = <<>>
    /\ chunk = NoValue
    /\ phase = "idle"

\* pipeline.process_video's last step: add_chunks_to_chromadb(chunks_file, c).
AddChunks(c, chunks) ==
    /\ last.op = "none"
    /\ \E r \in {add_chunks_to_chromadb(chroma, chunks, c)} :
           /\ chroma' = r.db
           /\ last' = [op |-> "add", collection |-> c, ret |-> r.ret,
                       valid |-> ValidIds(chunks),
                       all_valid |-> \A i \in 1..Len(chunks) : IsValidChunk(chunks[i]),
                       before |-> chroma[c]]
           /\ UNCHANGED <<bm25_cache, faiss_store>>
           /\ UNCHANGED align_vars
           /\ UNCHANGED ui
           /\ UNCHANGED threads

\* search_videos(query, c, n_results).
SearchVideos(c, query, n_results, query_fails) ==
    /\ last.op = "none"
    /\ \E s \in {search_videos(chroma, bm25_cache, query, c, n_results, query_fails)} :
           /\ chroma' = s.db
           /\ bm25_cache' = s.cache
           /\ last' = [op |-> "search", collection |-> c, query |-> query,
                       n_results |-> n_results, existed |-> chroma[c] # NoValue,
                       results |-> s.results, raised |-> s.raised,
                       vector_ids |-> s.vector_ids, bm25_ids |-> s.bm25_ids,
                       index_ids |-> s.index_ids]
           /\ UNCHANGED faiss_store
           /\ UNCHANGED align_vars
           /\ UNCHANGED ui
           /\ UNCHANGED threads

\* pipeline.ask_question(question, video_uuid): answer_question(question, c).
AskQuestion(c, query, query_fails, llm_ok) ==
    /\ last.op = "none"
    /\ \E a \in {answer_question(chroma, bm25_cache, query, c, query_fails, llm_ok)} :
           /\ chroma' = a.db
           /\ bm25_cache' = a.cache
           /\ last' = [op |-> "answer", collection |-> c, query |-> query,
                       llm_ok |-> llm_ok, retrieved |-> a.results.ids,
                       answer |-> a.answer]
           /\ UNCHANGED faiss_store
           /\ UNCHANGED align_vars
           /\ UNCHANGED ui
           /\ UNCHANGED threads

\* The call returns to its caller, which makes the next call only then (one
\* call at a time: pipeline.py calls, and waits for, each function in turn).
ReturnToCaller ==
    /\ last.op # "none"
    /\ last' = [op |-> "none"]
    /\ UNCHANGED <<chroma, bm25_cache, faiss_store>>
    /\ UNCHANGED align_vars
    /\ UNCHANGED ui
    /\ UNCHANGED threads

Init == StoreInit /\ AlignIdle

Next ==
    \E c \in MainCollections :
        \/ \E chunks \in ChunksFiles : AddChunks(c, chunks)
        \/ \E q \in Queries, k \in 1..MaxK, f \in BOOLEAN : SearchVideos(c, q, k, f)
        \/ \E q \in Queries, f \in BOOLEAN, ok \in BOOLEAN : AskQuestion(c, q, f, ok)
        \/ ReturnToCaller

Spec == Init /\ [][Next]_vars

\* The pipeline with several videos, each with its collection: the files of
\* one valid chunk, one question.
SingleChunkFiles == {f \in ChunksFiles : Len(f) = 1 /\ IsValidChunk(f[1])}
VideoQuery == Query(<<"a">>, 0)

VideosNext ==
    \E c \in Collections :
        \/ \E chunks \in SingleChunkFiles : AddChunks(c, chunks)
        \/ \E k \in 1..MaxK : SearchVideos(c, VideoQuery, k, FALSE)
        \/ \E ok \in BOOLEAN : AskQuestion(c, VideoQuery, FALSE, ok)
        \/ ReturnToCaller

SpecVideos == Init /\ [][VideosNext]_vars

\* faiss_qa.add_chunks_to_chromadb(chunks_file, c).
FaissAddChunks(c, chunks) ==
    /\ last.op = "none"
    /\ \E r \in {add_chunks(faiss_store, chunks, c)} :
           /\ faiss_store' = r.store
           /\ last' = [op |-> "add", collection |-> c, ret |-> r.ret,
                       valid |-> ValidIds(chunks),
                       all_valid |-> \A i \in 1..Len(chunks) : IsValidChunk(chunks[i]),
                       before |-> faiss_store[c]]
           /\ UNCHANGED <<chroma, bm25_cache>>
           /\ UNCHANGED align_vars
           /\ UNCHANGED ui
           /\ UNCHANGED threads

\* faiss_qa.search_videos(query, c, n_results).
FaissSearchVideos(c, query, n_results, query_fails) ==
    /\ last.op = "none"
    /\ last' = [op |-> "search", collection |-> c, query |-> query,
                n_results |-> n_results, existed |-> faiss_store[c] # NoValue,
                results |-> faiss_search(faiss_store, query, c, n_results,
                                         query_fails),
                raised |-> FALSE]
    /\ UNCHANGED <<chroma, bm25_cache, faiss_store>>
    /\ UNCHANGED align_vars
    /\ UNCHANGED ui
    /\ UNCHANGED threads

\* faiss_qa.answer_question(query, c).
FaissAskQuestion(c, query, query_fails, llm_ok) ==
    /\ last.op = "none"
    /\ last' = [op |-> "answer", collection |-> c, query |-> query,
                llm_ok |-> llm_ok,
                retrieved |-> faiss_search(faiss_store, query, c,
                                           ANSWER_N_RESULTS, query_fails).ids,
                answer |-> faiss_answer_question(faiss_store, query, c,
                                                 query_fails, llm_ok)]
    /\ UNCHANGED <<chroma, bm25_cache, faiss_store>>
    /\ UNCHANGED align_vars
    /\ UNCHANGED ui
    /\ UNCHANGED threads

FaissNext ==
    \E c \in MainCollections :
        \/ \E chunks \in ChunksFiles : FaissAddChunks(c, chunks)
        \/ \E q \in Queries, k \in 1..MaxK, f \in BOOLEAN :
              FaissSearchVideos(c, q, k, f)
        \/ \E q \in Queries, f \in BOOLEAN, ok \in BOOLEAN :
              FaissAskQuestion(c, q, f, ok)
        \/ ReturnToCaller

SpecFaiss == Init /\ [][FaissNext]_vars

\* ------------------------------------- chunker.py: create_citation_from_chunk
\* The text "Source: '<title>' at <start_time>-<end_time>[ (<url>&t=<t>s)]",
\* by its parts (source 0: no number is written).
create_citation_from_chunk(c) ==
    [source |-> 0,
     title |-> get(c, "video_title", "Unknown Video"),
     at |-> <<get(c, "start_time", format_time(0)),
              get(c, "end_time", format_time(0))>>,
     link |-> IF /\ get(c, "video_url", <<>>) # <<>>
                 /\ IsSubstring(<<"y", "o", "u", "t", "u", "b", "e", ".", "c", "o", "m">>,
                                c.video_url)
              THEN <<[url |-> c.video_url,
                      t |-> int_of(get(c, "start_seconds", 0))]>>
              ELSE <<>>]

\* ---------------------------------------------- citations: state machine
\* The metadata of a retrieved chunk: any of the title, the URL, the start
\* time and the start seconds may be missing; the URL may be empty or not a
\* YouTube one; the chunk starts at 0 s, 5.0 s or 5.9 s.
CitationMetadatas ==
    {[keys |-> MetadataKeys \ missing,
      chunk_id |-> 0,
      video_title |-> "T",
      video_url |-> url,
      start_time |-> format_time(int_of(secs)),
      end_time |-> format_time(int_of(secs) + 5),
      start_seconds |-> secs] :
        missing \in SUBSET {"video_title", "video_url", "start_time",
                            "start_seconds"},
        url \in {YouTubeUrl, OtherUrl, <<>>},
        secs \in {0, 50, 59}}

CiteInit ==
    /\ chunk \in CitationMetadatas
    /\ phase = "citing"
    /\ chunk_text = <<>>
    /\ segments = <<>>
    /\ StoreInit

\* answer_question's loop body for the i-th retrieved chunk (from 0), whose
\* metadata is `chunk`; and create_citation_from_chunk(chunk).
Cite(i) ==
    /\ phase = "citing"
    /\ last' = [op |-> "citation", source |-> i + 1,
                citation |-> citation_of(i + 1, chunk),
                chunk_citation |-> create_citation_from_chunk(chunk)]
    /\ phase' = "cited"
    /\ UNCHANGED <<chunk_text, segments, chunk>>
    /\ UNCHANGED <<chroma, bm25_cache, faiss_store, threads, ui>>

CiteNext == \E i \in 0..(MaxSource - 1) : Cite(i)
SpecCite == CiteInit /\ [][CiteNext]_vars

\* ------------------------------------------------ aligner: state machine
\* A chunk text and a segment list, as process_transcription_for_rag_langchain
\* hands them to find_chunk_timestamps.
AlignInputs ==
    /\ \/ \E v \in Variants :
            /\ chunk_text \in ChunkTexts(v.style)
            /\ segments \in SegmentLists(v)
       \/ /\ chunk_text = ScenarioChunk
          /\ segments = ScenarioSegments
    /\ chunk = NoValue
    /\ phase = "chunking"
    /\ StoreInit

\* The loop body of process_transcription_for_rag_langchain for one chunk.
ProcessChunk ==
    /\ phase = "chunking"
    /\ LET timestamp_info == find_chunk_timestamps(chunk_text, segments)
       IN  chunk' = [text |-> chunk_text,
                     word_count |-> Len(split(chunk_text)),
                     start_time |-> timestamp_info.start_time,
                     end_time |-> timestamp_info.end_time,
                     start_seconds |-> timestamp_info.start_seconds,
                     end_seconds |-> timestamp_info.end_seconds,
                     duration |-> timestamp_info.end_seconds
                                  - timestamp_info.start_seconds]
    /\ phase' = "chunked"
    /\ UNCHANGED <<chunk_text, segments>>
    /\ UNCHANGED store_vars

AlignInit == AlignInputs
AlignNext == ProcessChunk
SpecAlign == AlignInit /\ [][AlignNext]_vars

\* ------------------------------------- desktop_app.py: the two threads
\* A transcript of more chunks than one batch holds, and a short one.
LongFile == [u \in 1..(BATCH_SIZE + 1) |-> InputChunk(u, "ok")]
ShortFile == [u \in 1..2 |-> InputChunk(u, "ok")]
ThreadFiles == {LongFile, ShortFile}

Idle == [pc |-> "idle"]

\* _process_video_thread for a new video, up to the first batch:
\* pipeline.process_video has written the video's metadata (so that
\* list_videos shows it) and its chunks file, and add_chunks_to_chromadb
\* creates the video's collection and builds its four lists.
ProcessBegin(t, c, chunks) ==
    /\ threads[t].pc = "idle"
    /\ chroma[c] = NoValue
    /\ \E lists \in {add_lists(chunks, 1, EmptyLists)} :
           /\ chroma' = setup_chromadb(chroma, c)
           /\ threads' = [threads EXCEPT ![t] =
                 IF \/ ~(Len(lists.ids) = Len(lists.embeddings)
                         /\ Len(lists.embeddings) = Len(lists.documents)
                         /\ Len(lists.documents) = Len(lists.metadatas))
                    \/ Len(lists.ids) = 0
                 THEN [pc |-> "done", collection |-> c, ret |-> "None"]
                 ELSE [pc |-> "adding", collection |-> c, lists |-> lists,
                       batch_num |-> 0]]
    /\ UNCHANGED <<bm25_cache, faiss_store, last>>
    /\ UNCHANGED align_vars
    /\ UNCHANGED ui

\* One turn of add_chunks_to_chromadb's batch loop: collection.add of the
\* next batch, or the end of the loop.
ProcessBatch(t) ==
    /\ threads[t].pc = "adding"
    /\ LET me == threads[t]
           c == me.collection
           start_idx == me.batch_num * BATCH_SIZE
           end_idx == Min((me.batch_num + 1) * BATCH_SIZE, Len(me.lists.ids))
           ids == SubSeq(me.lists.ids, start_idx + 1, end_idx)
           embeddings == SubSeq(me.lists.embeddings, start_idx + 1, end_idx)
       IN  IF start_idx >= Len(me.lists.ids)
           THEN /\ threads' = [threads EXCEPT ![t] =
                       [pc |-> "done", collection |-> c, ret |-> "collection"]]
                /\ UNCHANGED chroma
           ELSE IF collection_add_raises(chroma[c], ids, embeddings)
           THEN /\ threads' = [threads EXCEPT ![t] =
                       [pc |-> "done", collection |-> c, ret |-> "None"]]
                /\ UNCHANGED chroma
           ELSE /\ chroma' = [chroma EXCEPT ![c] =
                       collection_add(@, ids, embeddings,
                           SubSeq(me.lists.documents, start_idx + 1, end_idx),
                           SubSeq(me.lists.metadatas, start_idx + 1, end_idx))]
                /\ threads' = [threads EXCEPT ![t].batch_num = @ + 1]
    /\ UNCHANGED <<bm25_cache, faiss_store, last>>
    /\ UNCHANGED align_vars
    /\ UNCHANGED ui

\* _ask_question_thread, in search_videos(query, c, n_results) for a video
\* that list_videos shows: setup_chromadb and collection.query.
AskQuery(t, c, query, n_results) ==
    /\ threads[t].pc = "idle"
    /\ \E db1 \in {setup_chromadb(chroma, c)} :
           /\ chroma' = db1
           /\ threads' = [threads EXCEPT ![t] =
                 IF collection_query_raises(db1[c])
                 THEN [pc |-> "done", collection |-> c, query |-> query,
                       results |-> EmptyResults, served |-> NoValue]
                 ELSE [pc |-> "build_bm25_index", collection |-> c,
                       query |-> query, n_results |-> n_results,
                       vector_results |->
                           collection_query(db1[c], query, n_results * 2)]]
    /\ UNCHANGED <<bm25_cache, faiss_store, last>>
    /\ UNCHANGED align_vars
    /\ UNCHANGED ui

\* What build_bm25_index hands to search_videos, with the ids the collection
\* holds at that moment.
Served(data, c) ==
    IF data = NoValue THEN NoValue
    ELSE [index_ids |-> data.ids, store_ids |-> chroma[c].ids]

\* build_bm25_index: the look into the cache; a cached index is returned.
AskCacheLookup(t) ==
    /\ threads[t].pc = "build_bm25_index"
    /\ LET me == threads[t]
           c == me.collection
       IN  threads' = [threads EXCEPT ![t] =
               IF bm25_cache[c] # NoValue
               THEN [pc |-> "fuse", collection |-> c, query |-> me.query,
                     n_results |-> me.n_results,
                     vector_results |-> me.vector_results,
                     bm25_data |-> bm25_cache[c],
                     served |-> Served(bm25_cache[c], c)]
               ELSE [pc |-> "get", collection |-> c, query |-> me.query,
                     n_results |-> me.n_results,
                     vector_results |-> me.vector_results]]
    /\ UNCHANGED <<chroma, bm25_cache, faiss_store, last>>
    /\ UNCHANGED align_vars
    /\ UNCHANGED ui

\* build_bm25_index: setup_chromadb and collection.get().
AskGet(t) ==
    /\ threads[t].pc = "get"
    /\ LET me == threads[t]
           db1 == setup_chromadb(chroma, me.collection)
       IN  /\ chroma' = db1
           /\ threads' = [threads EXCEPT ![t] =
                  [pc |-> "index", collection |-> me.collection,
                   query |-> me.query, n_results |-> me.n_results,
                   vector_results |-> me.vector_results,
                   all_results |-> db1[me.collection]]]
    /\ UNCHANGED <<bm25_cache, faiss_store, last>>
    /\ UNCHANGED align_vars
    /\ UNCHANGED ui

\* build_bm25_index: the index is built from what get() returned, put into
\* the cache and returned (None, and nothing cached, for no documents).
AskIndex(t) ==
    /\ threads[t].pc = "index"
    /\ LET me == threads[t]
           c == me.collection
       IN  \E data \in {IF me.all_results.documents = <<>> THEN NoValue
                        ELSE bm25_data_of(me.all_results)} :
               /\ bm25_cache' = IF data = NoValue THEN bm25_cache
                                ELSE [bm25_cache EXCEPT ![c] = data]
               /\ threads' = [threads EXCEPT ![t] =
                      [pc |-> "fuse", collection |-> c, query |-> me.query,
                       n_results |-> me.n_results,
                       vector_results |-> me.vector_results,
                       bm25_data |-> data,
                       served |-> Served(data, c)]]
    /\ UNCHANGED <<chroma, faiss_store, last>>
    /\ UNCHANGED align_vars
    /\ UNCHANGED ui

\* search_videos: the BM25 results, the fusion, and the return.
AskFuse(t) ==
    /\ threads[t].pc = "fuse"
    /\ LET me == threads[t]
       IN  \E bm25_ids \in {bm25_ids_of(me.bm25_data, me.query,
                                        me.n_results * 2)} :
               threads' = [threads EXCEPT ![t] =
                   [pc |-> "done", collection |-> me.collection,
                    query |-> me.query,
                    results |-> fused_results(me.vector_results, bm25_ids,
                                              me.n_results),
                    served |-> me.served]]
    /\ UNCHANGED <<chroma, bm25_cache, faiss_store, last>>
    /\ UNCHANGED align_vars
    /\ UNCHANGED ui

\* The thread ends; the main loop shows the answer and enables the Ask
\* button again.
AskDone(t) ==
    /\ threads[t].pc = "done"
    /\ threads' = [threads EXCEPT ![t] = Idle]
    /\ UNCHANGED <<chroma, bm25_cache, faiss_store, last>>
    /\ UNCHANGED align_vars
    /\ UNCHANGED ui

ThreadsNext ==
    \/ \E chunks \in ThreadFiles : ProcessBegin("process_1", "video_a", chunks)
    \/ ProcessBatch("process_1")
    \/ \E q \in Queries : AskQuery("ask", "video_a", q, ANSWER_N_RESULTS)
    \/ AskCacheLookup("ask")
    \/ AskGet("ask")
    \/ AskIndex("ask")
    \/ AskFuse("ask")
    \/ AskDone("ask")

SpecThreads == Init /\ [][ThreadsNext]_vars

\* ------------------------------- faiss_qa.py: add_chunks from two threads
FaissThreadFiles == SingleChunkFiles \cup {ShortFile}

\* add_chunks up to the files: the chunks file is read and the lists and the
\* index are built in memory (False for no chunk with an embedding).
FaissBegin(t, c, chunks) ==
    /\ threads[t].pc = "idle"
    /\ \E lists \in {faiss_lists(chunks, 1, EmptyLists)} :
           threads' = [threads EXCEPT ![t] =
               IF Len(chunks) = 0 \/ Len(lists.embeddings) = 0
               THEN Idle
               ELSE [pc |-> "write_index", collection |-> c, lists |-> lists]]
    /\ UNCHANGED <<chroma, bm25_cache, faiss_store, last>>
    /\ UNCHANGED align_vars
    /\ UNCHANGED ui

\* faiss.write_index(index, index_file): the collection's index file is
\* replaced; its metadata file is as it was (with none, no chunk is listed).
FaissWriteIndex(t) ==
    /\ threads[t].pc = "write_index"
    /\ LET me == threads[t]
           c == me.collection
       IN  /\ faiss_store' = [faiss_store EXCEPT ![c] =
                  IF @ = NoValue
                  THEN [index |-> me.lists.embeddings, documents |-> <<>>,
                        metadatas |-> <<>>, ids |-> <<>>]
                  ELSE [@ EXCEPT !.index = me.lists.embeddings]]
           /\ threads' = [threads EXCEPT ![t].pc = "write_metadata"]
    /\ UNCHANGED <<chroma, bm25_cache, last>>
    /\ UNCHANGED align_vars
    /\ UNCHANGED ui

\* pickle.dump to metadata.pkl: the documents, metadatas and ids are
\* replaced; add_chunks returns True.
FaissWriteMetadata(t) ==
    /\ threads[t].pc = "write_metadata"
    /\ LET me == threads[t]
           c == me.collection
       IN  /\ faiss_store' = [faiss_store EXCEPT ![c] =
                  [index |-> @.index,
                   documents |-> me.lists.documents,
                   metadatas |-> me.lists.metadatas,
                   ids |-> me.lists.ids]]
           /\ threads' = [threads EXCEPT ![t] = Idle]
    /\ UNCHANGED <<chroma, bm25_cache, last>>
    /\ UNCHANGED align_vars
    /\ UNCHANGED ui

FaissThreadsNext ==
    \E t \in {"process_1", "process_2"} :
        \/ \E chunks \in FaissThreadFiles : FaissBegin(t, "video_a", chunks)
        \/ FaissWriteIndex(t)
        \/ FaissWriteMetadata(t)

SpecFaissThreads == Init /\ [][FaissThreadsNext]_vars

\* ------------------------------------------- app.py and desktop_app.py
\* The longest chat the web front end is followed to.
MaxChat == 2

StartsWith(s, prefix) ==
    Len(s) >= Len(prefix) /\ SubSeq(s, 1, Len(prefix)) = prefix
DropPrefix(s, prefix) ==
    IF StartsWith(s, prefix) THEN SubSeq(s, Len(prefix) + 1, Len(s)) ELSE s

Http == <<"h", "t", "t", "p", ":", "/", "/">>
Https == <<"h", "t", "t", "p", "s", ":", "/", "/">>
Www == <<"w", "w", "w", ".">>
YouTubeHost == <<"y", "o", "u", "t", "u", "b", "e", ".", "c", "o", "m">>
ShortHost == <<"y", "o", "u", "t", "u", ".", "b", "e">>

\* validate_youtube_url(url): re.match of
\* (https?://)?(www\.)?(youtube\.com|youtu\.be)/.+ at the start of url.
validate_youtube_url(url) ==
    LET after_scheme == IF StartsWith(url, Https) THEN DropPrefix(url, Https)
                        ELSE DropPrefix(url, Http)
        after_www == DropPrefix(after_scheme, Www)
        after_host == IF StartsWith(after_www, YouTubeHost)
                      THEN DropPrefix(after_www, YouTubeHost)
                      ELSE IF StartsWith(after_www, ShortHost)
                      THEN DropPrefix(after_www, ShortHost)
                      ELSE <<>>
    IN  /\ url # <<>>
        /\ Len(after_host) >= 2
        /\ after_host[1] = "/"

\* What is typed into the URL field.
ShortUrl == ShortHost \o <<"/", "w">>
UrlInputs ==
    {<<>>, <<Space>>, YouTubeUrl, Https \o Www \o YouTubeUrl, ShortUrl,
     YouTubeHost \o <<"/">>, OtherUrl, <<"w">>}

\* The URLs behind which the downloader finds a video (it knows other
\* sites than YouTube).
HasVideo(url) == url \in {YouTubeUrl, OtherUrl}

\* The collection of the default name, which add_chunks_to_chromadb writes
\* to when it is given no name.
DefaultCollection == "youtube_videos"

\* What the outside of the pipeline gives to one call of process_video:
\* direct, api, ytdlp: the caption method yields a transcript; metadata:
\* get_video_metadata_fast returns the metadata; info: the downloader's
\* extract_info returns (the downloader then writes the metadata file);
\* download: the audio is downloaded; whisper: the audio is transcribed;
\* chunking: the chunker returns; chunks: the chunks it returns.
Envs(files) ==
    [direct : BOOLEAN, api : BOOLEAN, ytdlp : BOOLEAN, metadata : BOOLEAN,
     info : BOOLEAN, download : BOOLEAN, whisper : BOOLEAN,
     chunking : BOOLEAN, chunks : files]

\* audio_transcriber.process_youtube_fast(url): the caption methods it
\* calls, in the order of the calls, whether one of them gave a transcript,
\* and whether it returns the transcript and the metadata (or None, None).
process_youtube_fast(env) ==
    LET second == IF env.direct THEN <<>> ELSE <<"api">>
        third == IF env.direct \/ env.api THEN <<>> ELSE <<"ytdlp">>
        transcript_data == env.direct \/ env.api \/ env.ytdlp
    IN  [attempted |-> <<"direct">> \o second \o third,
         captions |-> transcript_data,
         returned |-> transcript_data /\ env.metadata]

\* A video's directory under rag_data that holds a metadata file (what
\* list_videos lists): its uuid, the url of its metadata, and the chunks of
\* its chunks file (<<>> while it has none).
VideoEntry(video_uuid, url, chunks) ==
    [uuid |-> video_uuid, url |-> url, chunks |-> chunks]

\* What process_video returns without a video: None.
Failed(attempted, captions, db, videos) ==
    [result |-> NoValue, existing |-> FALSE, attempted |-> attempted,
     captions |-> captions, add_ret |-> "not called",
     db |-> db, videos |-> videos]

\* process_video(url) for a url that _find_existing_video does not find,
\* under the new uuid video_uuid.
process_new_video(db, videos, url, video_uuid, env) ==
    LET fast == process_youtube_fast(env)
        attempted == IF fast.returned THEN fast.attempted
                     ELSE fast.attempted \o <<"audio">>
        with_metadata == videos \cup {VideoEntry(video_uuid, url, <<>>)}
        with_chunks == videos \cup {VideoEntry(video_uuid, url, env.chunks)}
    IN  IF ~fast.returned /\ ~env.info
        THEN Failed(attempted, fast.captions, db, videos)
        ELSE IF ~fast.returned /\ ~(env.download /\ env.whisper)
        THEN Failed(attempted, fast.captions, db, with_metadata)
        ELSE IF ~env.chunking
        THEN Failed(attempted, fast.captions, db, with_metadata)
        ELSE Once(add_chunks_to_chromadb(db, env.chunks, video_uuid),
                  LAMBDA a :
                      [result |-> VideoEntry(video_uuid, url, env.chunks),
                       existing |-> FALSE, attempted |-> attempted,
                       captions |-> fast.captions, add_ret |-> a.ret,
                       db |-> a.db, videos |-> with_chunks])

\* A faulty variant of process_video: it does not look for the url among
\* the videos.
process_video_unchecked(db, videos, url, video_uuid, env) ==
    process_new_video(db, videos, url, video_uuid, env)

\* pipeline.process_video(url) on the database db and the videos under
\* rag_data; video_uuid is the uuid it draws.
process_video(db, videos, url, video_uuid, env) ==
    IF \E v \in videos : v.url = url
    THEN [result |-> CHOOSE v \in videos : v.url = url,
          existing |-> TRUE, attempted |-> <<>>, captions |-> FALSE,
          add_ret |-> "not called", db |-> db, videos |-> videos]
    ELSE process_new_video(db, videos, url, video_uuid, env)

\* The call in which everything outside answers, the captions are found, and
\* the chunker returns chunks; and the call in which nothing answers.
CaptionsEnv(chunks) ==
    [direct |-> TRUE, api |-> TRUE, ytdlp |-> TRUE, metadata |-> TRUE,
     info |-> TRUE, download |-> TRUE, whisper |-> TRUE, chunking |-> TRUE,
     chunks |-> chunks]
NothingEnv ==
    [direct |-> FALSE, api |-> FALSE, ytdlp |-> FALSE, metadata |-> FALSE,
     info |-> FALSE, download |-> FALSE, whisper |-> FALSE,
     chunking |-> FALSE, chunks |-> <<>>]

\* pipeline.process_video(url), as the front ends meet it.  outcome is what
\* the download, transcription and chunking give: NoValue when nothing is
\* found behind the url, else the new uuid (written as the name of the
\* video's collection) and the chunks file.
pipeline_process_video(db, videos, url, outcome) ==
    Once(IF outcome = NoValue
         THEN process_video(db, videos, url, "video_a", NothingEnv)
         ELSE process_video(db, videos, url, outcome.uuid,
                            CaptionsEnv(outcome.chunks)),
         LAMBDA r : [result |-> r.result, db |-> r.db, videos |-> r.videos])

\* The outcomes the pipeline can have for url: a failure, or a video under a
\* uuid that no video has yet (which one of those is of no matter: any
\* one of them).
Outcomes(url) ==
    LET free == {x \in Collections : \A v \in ui.videos : v.uuid # x}
    IN  IF free = {} \/ ~HasVideo(url) THEN {NoValue}
        ELSE {NoValue,
              [uuid |-> CHOOSE x \in free : TRUE, chunks |-> ShortFile]}

\* app.py: process_video(youtube_url).
AppProcessVideo(youtube_url, outcome) ==
    /\ last.op = "none"
    /\ IF youtube_url = <<>>
       THEN /\ last' = [op |-> "process_video", front |-> "app",
                        url |-> youtube_url, pipeline |-> FALSE,
                        message |-> "Please enter a YouTube URL"]
            /\ UNCHANGED <<chroma, ui>>
       ELSE IF ~validate_youtube_url(youtube_url)
       THEN /\ last' = [op |-> "process_video", front |-> "app",
                        url |-> youtube_url, pipeline |-> FALSE,
                        message |-> "Please enter a valid YouTube URL"]
            /\ UNCHANGED <<chroma, ui>>
       ELSE IF \E info \in ui.processed_videos : info.url = youtube_url
       THEN /\ last' = [op |-> "process_video", front |-> "app",
                        url |-> youtube_url, pipeline |-> FALSE,
                        message |-> "Video already processed"]
            /\ UNCHANGED <<chroma, ui>>
       ELSE \E r \in {pipeline_process_video(chroma, ui.videos, youtube_url,
                                             outcome)} :
                /\ chroma' = r.db
                /\ ui' = [ui EXCEPT
                            !.videos = r.videos,
                            !.processed_videos =
                                IF r.result = NoValue THEN @
                                ELSE @ \cup {[uuid |-> r.result.uuid,
                                              url |-> youtube_url]}]
                /\ last' = [op |-> "process_video", front |-> "app",
                            url |-> youtube_url, pipeline |-> TRUE,
                            message |-> IF r.result = NoValue
                                        THEN "Failed to process video"
                                        ELSE "Successfully processed"]
    /\ UNCHANGED <<bm25_cache, faiss_store, threads>>
    /\ UNCHANGED align_vars

\* app.py: ask_question(question, video_uuid, chat_history); the chat
\* history is the chat the page shows.  emb is the point the question's
\* embedding is, llm_ok whether the language model answers.
AppAskQuestion(question, video_uuid, emb, llm_ok) ==
    /\ last.op = "none"
    /\ Len(ui.chat_history) < MaxChat
    /\ IF video_uuid = "" \/ question = <<>>
       THEN /\ last' = [op |-> "ask_question", question |-> question,
                        video_uuid |-> video_uuid, retrieval |-> FALSE,
                        chat_before |-> ui.chat_history,
                        chat_after |-> ui.chat_history]
            /\ UNCHANGED <<chroma, bm25_cache, ui>>
       ELSE \E a \in {answer_question(chroma, bm25_cache, Query(question, emb),
                                      video_uuid, FALSE, llm_ok)} :
                /\ chroma' = a.db
                /\ bm25_cache' = a.cache
                /\ ui' = [ui EXCEPT !.chat_history =
                             Append(@, [question |-> question,
                                        answer |-> a.answer.kind])]
                /\ last' = [op |-> "ask_question", question |-> question,
                            video_uuid |-> video_uuid, retrieval |-> TRUE,
                            chat_before |-> ui.chat_history,
                            chat_after |-> ui'.chat_history]
    /\ UNCHANGED <<faiss_store, threads>>
    /\ UNCHANGED align_vars

\* desktop_app.py: YouTubeRAGApp.process_video, on a click on the Process
\* button with url_entry in the URL field: an error box for an empty field,
\* else the button is disabled and the thread started.
DesktopProcessVideo(url_entry) ==
    /\ last.op = "none"
    /\ ui.process_btn = "normal"
    /\ LET url == strip(url_entry)
       IN  IF url = <<>>
           THEN /\ last' = [op |-> "process_video", front |-> "desktop",
                            url |-> url_entry, pipeline |-> FALSE,
                            message |-> "Please enter a YouTube URL"]
                /\ UNCHANGED <<threads, ui>>
           ELSE /\ ui' = [ui EXCEPT !.process_btn = "disabled"]
                /\ threads' = [threads EXCEPT !["process_1"] =
                                  [pc |-> "process_video", url |-> url]]
                /\ last' = [op |-> "process_video", front |-> "desktop",
                            url |-> url_entry, pipeline |-> TRUE,
                            message |-> "Processing..."]
    /\ UNCHANGED <<chroma, bm25_cache, faiss_store>>
    /\ UNCHANGED align_vars

\* desktop_app.py: _process_video_thread(url).  A video that list_videos
\* shows is loaded again into the collection of the default name; any other
\* URL goes to pipeline.process_video.  At its end the button is enabled.
DesktopProcessThread(outcome) ==
    /\ threads["process_1"].pc = "process_video"
    /\ LET url == threads["process_1"].url
       IN  IF \E v \in ui.videos : v.url = url
           THEN \E existing_video \in {v \in ui.videos : v.url = url} :
                    /\ chroma' = add_chunks_to_chromadb(
                                     chroma, existing_video.chunks,
                                     DefaultCollection).db
                    /\ ui' = [ui EXCEPT !.process_btn = "normal"]
           ELSE \E r \in {pipeline_process_video(chroma, ui.videos, url,
                                                 outcome)} :
                    /\ chroma' = r.db
                    /\ ui' = [ui EXCEPT !.videos = r.videos,
                                        !.process_btn = "normal"]
    /\ threads' = [threads EXCEPT !["process_1"] = Idle]
    /\ UNCHANGED <<bm25_cache, faiss_store, last>>
    /\ UNCHANGED align_vars

\* The front ends start with no collection, the collection of the default
\* name included.
FrontEndInit ==
    /\ chroma = [c \in Collections \cup {DefaultCollection} |-> NoValue]
    /\ bm25_cache = [c \in Collections \cup {DefaultCollection} |-> NoValue]
    /\ faiss_store = [c \in Collections |-> NoValue]
    /\ last = [op |-> "none"]
    /\ threads = [t \in Threads |-> Idle]
    /\ ui = NoVideos
    /\ AlignIdle

FrontEndNext ==
    \/ \E url \in UrlInputs :
           \E outcome \in Outcomes(url) : AppProcessVideo(url, outcome)
    \/ \E question \in {<<>>, <<"a">>}, video_uuid \in Collections \cup {""},
          llm_ok \in BOOLEAN :
           AppAskQuestion(question, video_uuid, 0, llm_ok)
    \/ \E url_entry \in UrlInputs : DesktopProcessVideo(url_entry)
    \/ /\ threads["process_1"].pc = "process_video"
       /\ \E outcome \in Outcomes(threads["process_1"].url) :
              DesktopProcessThread(outcome)
    \/ ReturnToCaller

SpecFrontEnd == FrontEndInit /\ [][FrontEndNext]_vars

\* ------------------------------------------ qa.py: calls in which parts fail
Failures == SUBSET {"collection", "query", "bm25"}
ValidFiles ==
    {f \in ChunksFiles : \A i \in 1..Len(f) : IsValidChunk(f[i])}

\* search_videos(query, c, n_results) while the parts in `failures` raise.
SearchVideosWith(c, query, n_results, failures) ==
    /\ last.op = "none"
    /\ \E s \in {search_videos_with(chroma, bm25_cache, query, c, n_results,
                                    failures)} :
           /\ chroma' = s.db
           /\ bm25_cache' = s.cache
           /\ last' = [op |-> "search", collection |-> c, query |-> query,
                       n_results |-> n_results, failures |-> failures,
                       results |-> s.results, raised |-> s.raised]
    /\ UNCHANGED <<faiss_store, threads, ui>>
    /\ UNCHANGED align_vars

\* pipeline.ask_question(question, video_uuid), that is
\* answer_question(question, c), while the parts in `failures` raise.
AskQuestionWith(c, query, failures, llm_ok) ==
    /\ last.op = "none"
    /\ \E a \in {answer_question_with(chroma, bm25_cache, query, c, failures,
                                      llm_ok)} :
           /\ chroma' = a.db
           /\ bm25_cache' = a.cache
           /\ last' = [op |-> "answer", collection |-> c, query |-> query,
                       failures |-> failures, llm_ok |-> llm_ok,
                       retrieved |-> a.results.ids, answer |-> a.answer]
    /\ UNCHANGED <<faiss_store, threads, ui>>
    /\ UNCHANGED align_vars

FailuresNext ==
    \/ \E chunks \in ValidFiles : AddChunks("video_a", chunks)
    \/ \E q \in Queries, k \in 1..MaxK, failures \in Failures :
           SearchVideosWith("video_a", q, k, failures)
    \/ \E q \in Queries, failures \in Failures, llm_ok \in BOOLEAN :
           AskQuestionWith("video_a", q, failures, llm_ok)
    \/ ReturnToCaller

SpecFailures == Init /\ [][FailuresNext]_vars

\* ------------------------------------------- pipeline.py: process_video
\* The chunks files of the pipeline's videos: a valid one, and one whose
\* second chunk the index store refuses.
RefusedFile == <<InputChunk(1, "ok"), InputChunk(2, "wrong_dimension")>>
PipelineFiles == {ShortFile, RefusedFile}
PipelineUrls == {YouTubeUrl, OtherUrl}

\* The uuid a call draws: one that no directory under rag_data has.
FreeUuids == {x \in Collections : \A v \in ui.videos : v.uuid # x}

\* pipeline.process_video(url), called directly.
PipelineProcessVideo(url, env) ==
    /\ last.op = "none"
    /\ FreeUuids # {}
    /\ \E r \in {process_video(chroma, ui.videos, url,
                               CHOOSE x \in FreeUuids : TRUE, env)} :
           /\ chroma' = r.db
           /\ ui' = [ui EXCEPT !.videos = r.videos]
           /\ last' = [op |-> "pipeline.process_video", url |-> url,
                       env |-> env, result |-> r.result,
                       existing |-> r.existing, attempted |-> r.attempted,
                       captions |-> r.captions, add_ret |-> r.add_ret,
                       db_before |-> chroma, videos_before |-> ui.videos]
    /\ UNCHANGED <<bm25_cache, faiss_store, threads>>
    /\ UNCHANGED align_vars

PipelineNext ==
    \/ \E url \in PipelineUrls, env \in Envs(PipelineFiles) :
           PipelineProcessVideo(url, env)
    \/ \E url \in PipelineUrls :
           \E outcome \in Outcomes(url) : AppProcessVideo(url, outcome)
    \/ ReturnToCaller

SpecPipeline == FrontEndInit /\ [][PipelineNext]_vars

\* ------------------------------------------- adds of more than one batch
\* A chunks file of two batches whose last chunk, the only one of the second
\* batch, the index store refuses.
LongRefused ==
    [u \in 1..(BATCH_SIZE + 1) |->
        InputChunk(u, IF u = BATCH_SIZE + 1 THEN "wrong_dimension" ELSE "ok")]
BatchFiles == ChunksFiles \cup {LongFile, LongRefused}

BatchesNext ==
    \/ \E chunks \in BatchFiles : AddChunks("video_a", chunks)
    \/ ReturnToCaller

SpecBatches == Init /\ [][BatchesNext]_vars

\* ------------------------------------- answer_question of both stores
AnswersNext ==
    \/ \E chunks \in ValidFiles : AddChunks("video_a", chunks)
    \/ \E q \in Queries, failures \in Failures, llm_ok \in BOOLEAN :
           AskQuestionWith("video_a", q, failures, llm_ok)
    \/ \E chunks \in ValidFiles : FaissAddChunks("video_a", chunks)
    \/ \E q \in Queries, f \in BOOLEAN, llm_ok \in BOOLEAN :
           FaissAskQuestion("video_a", q, f, llm_ok)
    \/ ReturnToCaller

SpecAnswers == Init /\ [][AnswersNext]_vars

\* ================================================================== claims
\* Position of x in the sequence s.
PositionIn(s, x) == CHOOSE i \in 1..Len(s) : s[i] = x

\* The dense score (1 - distance, in tenths) of the chunk `id` of the
\* collection the last search was made on, for that search's query.
DenseScoreOf(id) ==
    LET coll == chroma[last.collection]
    IN  ONE - distance(coll.embeddings[PositionIn(coll.ids, id)], last.query)

\* The final score of the r-th result of the last search.
FinalScoreAt(r) == ONE - last.results.distances[r]

\* The last call was a search that got its dense candidates.
SearchRan == last.op = "search" /\ last.vector_ids # <<>>

\* ---- C1 (as claimed): a search on a collection that changed since its BM25
\* index was cached uses an index built from the collection's current
\* documents: the ids the index covers are the ids the collection holds.
C1_IndexIsCurrent ==
    SearchRan => last.index_ids = chroma[last.collection].ids

\* The collection holds nothing but valid chunks, as the chunker makes them.
HoldsValidChunks(coll) ==
    \/ coll = NoValue
    \/ \A i \in 1..Len(coll.ids) :
          coll.ids[i] \in 1..NIds /\ coll.documents[i] = TextOf(coll.ids[i])

\* ---- C2 (as claimed): a successful add() leaves in the collection every
\* chunk an earlier add stored and every valid chunk of this call
\* (faiss_qa.py's store).
C2_AddAppends ==
    (last.op = "add" /\ last.ret = TRUE /\ last.all_valid
     /\ HoldsValidChunks(last.before)) =>
        /\ StoredIds(last.before) \subseteq StoredIds(faiss_store[last.collection])
        /\ last.valid \subseteq StoredIds(faiss_store[last.collection])

\* ---- C3 (as claimed): an add() whose file holds a defective chunk next to
\* valid ones reports success and stores every valid chunk.
C3_BadChunkSkipped ==
    (last.op = "add" /\ ~last.all_valid /\ last.valid # {}) =>
        /\ last.ret = "collection"
        /\ last.valid \subseteq StoredIds(chroma[last.collection])

\* ---- C4 (as claimed): when the language model fails after retrieval
\* returned a chunk, the pipeline's answer_question returns the template
\* answer: retrieved chunk texts and their citations.
C4_TemplateAnswer ==
    (last.op = "answer" /\ ~last.llm_ok /\ last.retrieved # <<>>) =>
        /\ last.answer.kind = "template"
        /\ last.answer.texts # <<>>
        /\ Len(last.answer.citations) = Len(last.retrieved)
        /\ ~last.answer.raised

\* ---- C5: in a search result, a chunk that is both a dense candidate and a
\* BM25 result has final score dense score + 0.5 (the boost, once), a chunk
\* that is no BM25 result keeps its dense score, and a boosted chunk comes
\* before every returned dense-only chunk of equal dense score.
C5_FusionBoost ==
    last.op = "search" =>
        /\ \A r \in 1..Len(last.results.ids) :
              FinalScoreAt(r) =
                  DenseScoreOf(last.results.ids[r])
                  + (IF last.results.ids[r] \in Range(last.bm25_ids)
                     THEN BOOST ELSE 0)
        /\ \A u, v \in Range(last.vector_ids) :
              (/\ u \in Range(last.bm25_ids)
               /\ v \notin Range(last.bm25_ids)
               /\ DenseScoreOf(u) = DenseScoreOf(v)
               /\ v \in Range(last.results.ids))
              => /\ u \in Range(last.results.ids)
                 /\ PositionIn(last.results.ids, u) < PositionIn(last.results.ids, v)

\* C5's case: a boosted chunk and a dense-only chunk of equal dense score,
\* both returned.
C5_Witness ==
    /\ last.op = "search"
    /\ \E u, v \in Range(last.results.ids) :
          /\ u \in Range(last.bm25_ids)
          /\ v \notin Range(last.bm25_ids)
          /\ DenseScoreOf(u) = DenseScoreOf(v)

\* ---- C6: every chunk a search returns is one of its dense candidates, and
\* those are at most 2k chunks of the collection with no chunk outside them
\* nearer to the query: a chunk that is only a BM25 result is not returned.
C6_OnlyDenseCandidates ==
    last.op = "search" =>
        /\ Range(last.results.ids) \subseteq Range(last.vector_ids)
        /\ Len(last.vector_ids) <= 2 * last.n_results
        /\ Range(last.vector_ids) \subseteq StoredIds(chroma[last.collection])
        /\ SearchRan =>
              \A x \in StoredIds(chroma[last.collection]) \ Range(last.vector_ids) :
                  \A y \in Range(last.vector_ids) : DenseScoreOf(x) <= DenseScoreOf(y)
        /\ \A x \in Range(last.bm25_ids) \ Range(last.vector_ids) :
              x \notin Range(last.results.ids)

\* C6's case: a search with a result, and a BM25 result that is no dense
\* candidate.
C6_Witness ==
    /\ last.op = "search"
    /\ last.results.ids # <<>>
    /\ Range(last.bm25_ids) \ Range(last.vector_ids) # {}

\* ---- C7: a search returns the min(k, candidates) best candidates, by final
\* score descending; results of equal final score are in the order of the
\* dense candidates.
C7_TopKStable ==
    last.op = "search" =>
        /\ Len(last.results.ids) = Min(last.n_results, Len(last.vector_ids))
        /\ Len(last.results.documents) = Len(last.results.ids)
        /\ Len(last.results.metadatas) = Len(last.results.ids)
        /\ Len(last.results.distances) = Len(last.results.ids)
        /\ \A r1, r2 \in 1..Len(last.results.ids) :
              r1 < r2 =>
                  /\ FinalScoreAt(r1) >= FinalScoreAt(r2)
                  /\ FinalScoreAt(r1) = FinalScoreAt(r2) =>
                        PositionIn(last.vector_ids, last.results.ids[r1])
                            < PositionIn(last.vector_ids, last.results.ids[r2])
        /\ \A x \in Range(last.vector_ids) \ Range(last.results.ids) :
              \A r \in 1..Len(last.results.ids) :
                  FinalScoreAt(r) >=
                      DenseScoreOf(x)
                      + (IF x \in Range(last.bm25_ids) THEN BOOST ELSE 0)

\* C7's case: two results of equal final score, and a candidate cut off.
C7_Witness ==
    /\ last.op = "search"
    /\ Len(last.results.ids) = 2
    /\ FinalScoreAt(1) = FinalScoreAt(2)
    /\ Len(last.vector_ids) > last.n_results

\* ---- C8: a search on a collection that did not exist, or that holds no
\* chunk, returns the empty result and raises nothing.
C8_EmptyCollection ==
    (last.op = "search"
     /\ (~last.existed \/ chroma[last.collection].ids = <<>>)) =>
        /\ last.results = EmptyResults
        /\ ~last.raised

\* C8's case: a search on a collection that did not exist.
C8_Witness ==
    /\ last.op = "search"
    /\ ~last.existed
    /\ last.results = EmptyResults

\* The section 8 scenario has been aligned.
ScenarioAligned ==
    /\ phase = "chunked"
    /\ chunk_text = ScenarioChunk
    /\ segments = ScenarioSegments

\* ---- C9 (as claimed): in the scenario the start comes from the first
\* segment and the end from the second: start_seconds = 0, end_seconds = 12.
C9_AsClaimed ==
    ScenarioAligned =>
        /\ start_segment_of(chunk_text, segments) = 1
        /\ end_segment_of(chunk_text, segments) = 2
        /\ chunk.start_seconds = 0
        /\ chunk.end_seconds = 12

\* ---- C9 (amended): in the scenario both the start and the end come from
\* the second segment, the only one that shares at least three words with
\* the chunk: start_seconds = 5, end_seconds = 12.
C9_ScenarioRange ==
    ScenarioAligned =>
        /\ start_segment_of(chunk_text, segments) = 2
        /\ end_segment_of(chunk_text, segments) = 2
        /\ chunk.start_seconds = 5
        /\ chunk.end_seconds = 12
        /\ chunk.duration = 7

\* C9's case: the scenario, aligned, with a range.
C9_Witness == ScenarioAligned /\ chunk.end_seconds > 0

\* ---- C10 (as claimed): a chunk aligned against a non-empty segment list
\* ordered by start has 0 <= start_seconds <= end_seconds, so its duration
\* is not negative.
C10_StartBeforeEnd ==
    (phase = "chunked" /\ segments # <<>>) =>
        /\ 0 <= chunk.start_seconds
        /\ chunk.start_seconds <= chunk.end_seconds
        /\ chunk.duration >= 0

\* ---- C11: a chunk aligned against a non-empty segment list, in order and
\* not overlapping, has its start_seconds and its end_seconds within
\* [segments[0].start_seconds, segments[-1].end_seconds].
C11_WithinSegmentStore ==
    (phase = "chunked" /\ segments # <<>>) =>
        /\ segments[1].start_seconds <= chunk.start_seconds
        /\ chunk.start_seconds <= segments[Len(segments)].end_seconds
        /\ segments[1].start_seconds <= chunk.end_seconds
        /\ chunk.end_seconds <= segments[Len(segments)].end_seconds

\* C11's case: a transcript that starts after second 0, and a chunk of three
\* words or more that no segment matches (the first-segment fallback).
C11_Witness ==
    /\ phase = "chunked"
    /\ Len(segments) >= 2
    /\ segments[1].start_seconds > 0
    /\ chunk.word_count >= 3
    /\ start_segment_of(chunk_text, segments) = 0
    /\ fallback_segment_of(chunk_words_of(chunk_text), segments, 1) = 0

\* ---- C12: a chunk text of one or two words, aligned against a non-empty
\* segment list, gets exactly the first segment's start and end.
C12_ShortChunkFirstSegment ==
    (phase = "chunked" /\ segments # <<>> /\ chunk.word_count \in {1, 2}) =>
        /\ chunk.start_seconds = segments[1].start_seconds
        /\ chunk.end_seconds = segments[1].end_seconds
        /\ chunk.start_time = segments[1].start_time
        /\ chunk.end_time = segments[1].end_time

\* C12's case: a two-word chunk whose text is in the second segment and not
\* in the first.
C12_Witness ==
    /\ phase = "chunked"
    /\ chunk.word_count = 2
    /\ Len(segments) >= 2
    /\ IsSubstring(strip(lower(chunk_text)), segment_text_of(segments[2]))
    /\ ~IsSubstring(strip(lower(chunk_text)), segment_text_of(segments[1]))

\* ---- C13: with an empty segment list, the chunk gets the zero range:
\* start_seconds = 0, end_seconds = 0, both times 0:00:00.
C13_EmptySegmentsZeroRange ==
    (phase = "chunked" /\ segments = <<>>) =>
        /\ chunk.start_seconds = 0
        /\ chunk.end_seconds = 0
        /\ chunk.start_time = <<0, 0, 0>>
        /\ chunk.end_time = <<0, 0, 0>>
        /\ chunk.duration = 0

\* C13's case: a chunk of three words or more aligned with no segments.
C13_Witness ==
    /\ phase = "chunked"
    /\ segments = <<>>
    /\ chunk.word_count >= 3

\* The citation C14 describes for the N-th retrieved chunk with metadata m:
\* both times, and the link when the URL is a YouTube one and start_seconds
\* is there.
CitationAsSpecified(N, m) ==
    [source |-> N,
     title |-> IF "video_title" \in m.keys THEN m.video_title ELSE "Unknown",
     at |-> <<m.start_time, m.end_time>>,
     link |-> IF /\ "video_url" \in m.keys
                 /\ IsSubstring(<<"y", "o", "u", "t", "u", "b", "e">>, m.video_url)
                 /\ "start_seconds" \in m.keys
              THEN <<[url |-> m.video_url, t |-> m.start_seconds \div 10]>>
              ELSE <<>>]

\* ---- C14 (as claimed): the citation of the N-th retrieved chunk is
\* "Source N: '<title>' at <start_time>-<end_time> (<url>&t=<int(start_seconds)>s)"
\* when a YouTube URL and start_seconds are there (0 included), the same
\* without the link otherwise, with the title "Unknown" when it is missing.
C14_CitationFormat ==
    (last.op = "citation" /\ {"start_time", "end_time"} \subseteq chunk.keys) =>
        last.citation = CitationAsSpecified(last.source, chunk)

\* The r-th result of the last search is a chunk the collection coll holds.
ResultIsChunkOf(r, coll) ==
    \E i \in 1..Len(coll.ids) :
        /\ coll.ids[i] = last.results.ids[r]
        /\ coll.documents[i] = last.results.documents[r]
        /\ coll.metadatas[i] = last.results.metadatas[r]

\* What a search or an answer on a collection returns is held by it.
ReturnsOwnChunks ==
    /\ last.op = "search" =>
          \A r \in 1..Len(last.results.ids) :
              ResultIsChunkOf(r, chroma[last.collection])
    /\ last.op = "answer" =>
          Range(last.retrieved) \subseteq StoredIds(chroma[last.collection])

\* ---- C15: a call (add, search, answer) on one collection leaves what is
\* stored and cached for every other collection as it was, and a search or
\* an answer returns only chunks its own collection holds.
C15_CollectionsIsolated ==
    [][/\ \A c \in Collections :
             (last'.op # "none" /\ last'.collection # c) =>
                 /\ chroma'[c] = chroma[c]
                 /\ bm25_cache'[c] = bm25_cache[c]
                 /\ faiss_store'[c] = faiss_store[c]
       /\ ReturnsOwnChunks']_vars

\* C15's case: an add to video_b that stored a chunk, while video_a holds
\* chunks that video_b does not, and has a cached index.
C15_Witness ==
    /\ last.op = "add"
    /\ last.collection = "video_b"
    /\ last.ret = "collection"
    /\ chroma["video_a"] # NoValue
    /\ bm25_cache["video_a"] # NoValue
    /\ StoredIds(chroma["video_a"]) \ StoredIds(chroma["video_b"]) # {}
    /\ StoredIds(chroma["video_b"]) \ StoredIds(chroma["video_a"]) # {}

\* ---- C16 (as claimed): after any adds, no two chunks stored in one
\* collection share an id (faiss_qa.py's store).
C16_IdsUnique ==
    \A c \in Collections :
        faiss_store[c] # NoValue =>
            Cardinality(Range(faiss_store[c].ids)) = Len(faiss_store[c].ids)

\* C17: a search that runs next to an add to the same collection is never
\* handed a lexical index that was built before a write to the collection
\* and returned after it: the index build_bm25_index returns covers the ids
\* the collection holds when it returns.
C17_IndexServedIsCurrent ==
    (threads.ask.pc \in {"fuse", "done"} /\ threads.ask.served # NoValue)
        => threads.ask.served.index_ids = threads.ask.served.store_ids

\* The collection c holds what one completed add of some chunks file leaves.
FromOneAdd(c) ==
    \E chunks \in FaissThreadFiles :
        \E r \in {add_chunks(faiss_store, chunks, c)} :
            r.ret /\ r.store[c] = faiss_store[c]

\* C18: adds to one collection are serialized, and no interleaved or partial
\* write stays: once no add is running, the collection's index and its
\* documents, metadatas and ids have the same number of entries and are
\* those of one completed add.
C18_WritesSerialized ==
    (\A t \in Threads : threads[t].pc = "idle")
        => \A c \in Collections :
               faiss_store[c] # NoValue
                   => /\ Len(faiss_store[c].index) = Len(faiss_store[c].ids)
                      /\ Len(faiss_store[c].ids) = Len(faiss_store[c].documents)
                      /\ FromOneAdd(c)

\* An empty URL, or one that names neither youtube.com nor youtu.be.
NotAYouTubeUrl(url) ==
    \/ strip(url) = <<>>
    \/ ~(IsSubstring(YouTubeHost, url) \/ IsSubstring(ShortHost, url))

\* C19: an empty or non-YouTube URL and an empty question are turned away
\* before the core: process_video answers such a URL with a validation
\* message and does not call the pipeline; ask_question with an empty
\* question or no selected video does no retrieval and leaves the chat
\* history as it was.
C19_InputsRejected ==
    /\ (last.op = "process_video" /\ NotAYouTubeUrl(last.url))
           => /\ ~last.pipeline
              /\ last.message \in {"Please enter a YouTube URL",
                                   "Please enter a valid YouTube URL"}
    /\ (last.op = "ask_question"
        /\ (last.question = <<>> \/ last.video_uuid = ""))
           => /\ ~last.retrieval
              /\ last.chat_after = last.chat_before

\* The kinds of string answer_question returns.
ReadableAnswers ==
    {"no_relevant_information", "generated", "error_generating_answer"}

\* C20: search and answer_question hand no exception to their caller,
\* whatever fails: a search returns a result (the empty one when the
\* collection or the query failed), answer_question one of its strings (its
\* error string when the language model failed).
C20_NoExceptionPropagates ==
    /\ last.op = "search" =>
           /\ ~last.raised
           /\ Len(last.results.ids) = Len(last.results.documents)
           /\ Len(last.results.ids) <= last.n_results
           /\ (last.failures \cap {"collection", "query"} # {}
                   => last.results = EmptyResults)
    /\ last.op = "answer" =>
           /\ ~last.answer.raised
           /\ last.answer.kind \in ReadableAnswers
           /\ (last.failures \cap {"collection", "query"} # {}
                   => last.answer.kind = "no_relevant_information")
           /\ (last.retrieved # <<>> /\ ~last.llm_ok
                   => last.answer.kind = "error_generating_answer")

\* C20's case: chunks were retrieved although the lexical index failed, and
\* the language model failed.
C20_Witness ==
    /\ last.op = "answer"
    /\ "bm25" \in last.failures
    /\ ~last.llm_ok
    /\ last.retrieved # <<>>

\* The score of segment i for a phrase and the words it is taken from: the
\* phrase's length if the segment's text holds the phrase, the number of the
\* words in the segment's word set if they are three or more, the higher of
\* the two, and 0 if neither holds.
ClaimedScore(i, phrase, words) ==
    LET segment_text == strip(lower(segments[i].text))
        in_set == Cardinality({j \in 1..Len(words) :
                                  words[j] \in Range(split(segment_text))})
    IN  Max(IF IsSubstring(phrase, segment_text) THEN Len(phrase) ELSE 0,
            IF in_set >= 3 THEN in_set ELSE 0)

\* The earliest segment of the highest score, 0 if no segment has a score.
ClaimedBest(phrase, words) ==
    LET scored == {i \in 1..Len(segments) : ClaimedScore(i, phrase, words) > 0}
        best == {i \in scored : \A j \in scored :
                    ClaimedScore(j, phrase, words) <= ClaimedScore(i, phrase, words)}
    IN  IF scored = {} THEN 0 ELSE CHOOSE i \in best : \A j \in best : i <= j

ClaimedStart ==
    LET cw == split(strip(lower(chunk_text)))
    IN  ClaimedBest(join(FirstN(cw, 5)), FirstN(cw, 10))
ClaimedEnd ==
    LET cw == split(strip(lower(chunk_text)))
    IN  ClaimedBest(join(LastN(cw, 5)), LastN(cw, 10))

\* A chunk of three or more words was aligned to a transcript with segments.
LongChunkAligned ==
    /\ phase = "chunked"
    /\ segments # <<>>
    /\ Len(split(strip(lower(chunk_text)))) >= 3

\* C21: for a chunk of three or more words the start segment and the end
\* segment are each the earliest segment of the highest score; when both
\* exist, the range runs from the start of the start segment to the end of
\* the end segment.
C21_BestSegments ==
    (LongChunkAligned /\ ClaimedStart # 0 /\ ClaimedEnd # 0)
        => /\ chunk.start_seconds = segments[ClaimedStart].start_seconds
           /\ chunk.start_time = segments[ClaimedStart].start_time
           /\ chunk.end_seconds = segments[ClaimedEnd].end_seconds
           /\ chunk.end_time = segments[ClaimedEnd].end_time

\* C21's case: two segments score the same for the start, the earlier one is
\* taken, and the end segment is another one.
C21_Witness ==
    /\ LongChunkAligned
    /\ Len(segments) = 2
    /\ ClaimedStart = 1
    /\ ClaimedEnd = 2
    /\ LET cw == split(strip(lower(chunk_text)))
       IN  ClaimedScore(1, join(FirstN(cw, 5)), FirstN(cw, 10))
               = ClaimedScore(2, join(FirstN(cw, 5)), FirstN(cw, 10))

\* The words of the chunk (each occurrence counted) that segment i's word
\* set holds.
SharedWords(i) ==
    LET cw == split(strip(lower(chunk_text)))
        seg_words == Range(split(strip(lower(segments[i].text))))
    IN  Cardinality({j \in 1..Len(cw) : cw[j] \in seg_words})

\* The segments that share enough words with the chunk.
SharingSegments ==
    LET cw == split(strip(lower(chunk_text)))
    IN  {i \in 1..Len(segments) : SharedWords(i) >= Min(5, Len(cw) \div 2)}

\* C22: when a start segment and an end segment are not both found, the
\* range is the full range of the first segment that shares at least
\* min(5, len(chunk_words) // 2) words with the chunk, and the first
\* segment's range only if no segment does; a range is always returned.
C22_FallbackOrder ==
    (LongChunkAligned /\ (ClaimedStart = 0 \/ ClaimedEnd = 0))
        => LET f == IF SharingSegments = {} THEN 1
                    ELSE CHOOSE i \in SharingSegments :
                             \A j \in SharingSegments : i <= j
           IN  /\ chunk # NoValue
               /\ chunk.start_seconds = segments[f].start_seconds
               /\ chunk.end_seconds = segments[f].end_seconds
               /\ chunk.start_time = segments[f].start_time
               /\ chunk.end_time = segments[f].end_time

\* C22's case: no start and end segment, the first segment does not share
\* enough words, a later one does.
C22_Witness ==
    /\ LongChunkAligned
    /\ (ClaimedStart = 0 \/ ClaimedEnd = 0)
    /\ SharingSegments # {}
    /\ 1 \notin SharingSegments

\* C23: when the retrieval for a question returns no chunk, answer_question
\* returns "No relevant information found." as a normal result: the language
\* model is not called and nothing is raised.
C23_NoChunksNoLlm ==
    (last.op = "answer" /\ last.retrieved = <<>>)
        => /\ last.answer.kind = "no_relevant_information"
           /\ ~last.answer.llm_called
           /\ ~last.answer.raised

\* C23's case: nothing was retrieved from the ChromaDB collection, and the
\* language model would have failed.
C23_Witness ==
    /\ last.op = "answer"
    /\ "failures" \in DOMAIN last
    /\ last.retrieved = <<>>
    /\ ~last.llm_ok

\* The place of a source in the order of the sources.
SourceRank(source) ==
    CASE source = "direct" -> 1
      [] source = "api" -> 2
      [] source = "ytdlp" -> 3
      [] source = "audio" -> 4

\* C24: the transcript's sources are tried in the order direct captions,
\* YouTube Data API, yt-dlp subtitles, audio with Whisper, each one only if
\* every one before it gave no transcript; so the audio is downloaded only
\* when no caption method gave a transcript.
C24_SourcesInOrder ==
    (last.op = "pipeline.process_video" /\ ~last.existing)
        => /\ \A i, j \in 1..Len(last.attempted) :
                  i < j => SourceRank(last.attempted[i])
                               < SourceRank(last.attempted[j])
           /\ "api" \in Range(last.attempted) => ~last.env.direct
           /\ "ytdlp" \in Range(last.attempted)
                  => ~last.env.direct /\ ~last.env.api
           /\ "audio" \in Range(last.attempted)
                  => ~last.env.direct /\ ~last.env.api /\ ~last.env.ytdlp

\* C25: process_video for a url that is already listed returns the listed
\* video and creates nothing (no directory, no chunks file, no collection);
\* so no url has two entries among the videos, nor among the videos the web
\* page holds as processed.
C25_OneEntryPerUrl ==
    /\ \A v, w \in ui.videos : v.url = w.url => v = w
    /\ \A v, w \in ui.processed_videos : v.url = w.url => v = w
    /\ (/\ last.op = "pipeline.process_video"
        /\ \E v \in last.videos_before : v.url = last.url)
           => /\ last.result \in last.videos_before
              /\ last.result.url = last.url
              /\ ui.videos = last.videos_before
              /\ chroma = last.db_before

\* C25's case: process_video is called again for a listed url, with all
\* that a new processing needs (captions, metadata, chunks) at hand, and
\* with a uuid left to draw.
C25_Witness ==
    /\ last.op = "pipeline.process_video"
    /\ \E v \in last.videos_before : v.url = last.url
    /\ last.env = CaptionsEnv(ShortFile)
    /\ Cardinality(ui.videos) = 1

\* C26: a video is listed (and so taken by process_video as processed
\* already) only if its processing went to its end, its chunks written and
\* added to its collection; a call of process_video that fails leaves no
\* entry of the video.
C26_ListedOnlyIfCompleted ==
    /\ \A v \in ui.videos :
           /\ v.chunks # <<>>
           /\ ValidIds(v.chunks) \subseteq StoredIds(chroma[v.uuid])
    /\ (last.op = "pipeline.process_video" /\ last.result = NoValue)
           => \A v \in ui.videos : v.url # last.url

\* C27: process_video returns a video (not None) only if the chunks were
\* added to the video's collection: when add_chunks_to_chromadb returns
\* None, process_video returns None.
C27_SuccessOnlyIfAdded ==
    (/\ last.op = "pipeline.process_video"
     /\ ~last.existing
     /\ last.result # NoValue)
        => last.add_ret # "None"

\* C28: when add returns None, the collection holds what it held before the
\* call (a collection that did not exist holds nothing): no chunk of the
\* failed call is stored, also when a batch after the first one fails.
C28_FailedAddStoresNothing ==
    (last.op = "add" /\ last.ret = "None")
        => IF last.before = NoValue
           THEN chroma[last.collection].ids = <<>>
           ELSE chroma[last.collection] = last.before

\* C29: a search only reads the index store: a search of a collection that
\* does not exist does not create it, and no search changes which
\* collections there are or what a collection holds.
C29_SearchReadOnly ==
    [][last'.op = "search" => chroma' = chroma /\ faiss_store' = faiss_store]_vars

\* C30: the cache gets an entry only from an index built from documents.  A
\* build over a collection without documents, and a build that raises, leave
\* the cache as it was; so the first search on a collection that holds
\* documents, whatever was searched before, stores the index of these
\* documents.
C30_OnlyBuiltIndexIsCached ==
    /\ [](\A c \in DOMAIN bm25_cache :
              bm25_cache[c] # NoValue => bm25_cache[c].ids # <<>>)
    /\ [][(/\ last'.op \in {"search", "answer"}
           /\ bm25_cache[last'.collection] = NoValue)
              => IF \/ StoredIds(chroma[last'.collection]) = {}
                    \/ last'.failures # {}
                 THEN bm25_cache' = bm25_cache
                 ELSE /\ bm25_cache'[last'.collection] # NoValue
                      /\ bm25_cache'[last'.collection].ids
                             = chroma[last'.collection].ids]_vars

\* C30's case: a search, in which nothing raised, of a collection that
\* exists and holds no document: the cache has no entry for it.
C30_Witness ==
    /\ last.op = "search"
    /\ last.failures = {}
    /\ chroma[last.collection] # NoValue
    /\ chroma[last.collection].ids = <<>>
    /\ bm25_cache[last.collection] = NoValue

====
